---- MODULE Spec2Model ----
(***************************************************************************)
(* The provisioning scripts of Project-Orchestration-and-Scaling as a      *)
(* state machine: boto3-iac-script.py ("iac") and                          *)
(* complete-deployment-script.py ("deploy") run as processes against one   *)
(* remote account and one ledger file, infrastructure_details.json.        *)
(***************************************************************************)
EXTENDS Integers, Sequences, FiniteSets, TLC

VARIABLES
    file,            \* infrastructure_details.json: [exists, doc], doc a token sequence
    remote,          \* names of the uniquely named resources in the remote account
    zones,           \* number of availability zones the region reports
    script,          \* script[p]: the script process p runs
    status,          \* status[p]: idle, running, exit0, exit1, raised, killed
    pc,              \* pc[p]: index of the next statement in Program(script[p])
    infrastructure,  \* infrastructure[p]: the in-memory ledger of process p
    locals,          \* locals[p][stage]: the record the stage returned (vpc_info, ...)
    started,         \* started[p]: the stages entered, in order
    calls,           \* calls[p]: the remote calls issued, in order
    caught,          \* caught[p]: the exceptions an except clause handled
    raisedAt,        \* raisedAt[p]: the exception that ended the run, if any
    out,             \* out[p]: the messages printed
    file0,           \* file0[p]: the ledger file as it was when p started
    config,          \* backup_config.json: [exists, doc], as file
    clock,           \* clock[p]: the seconds p has spent sleeping
    response         \* response[p]: the hosted zones p's lookup returned

vars == <<file, remote, zones, script, status, pc, infrastructure, locals,
          started, calls, caught, raisedAt, out, file0, config, clock, response>>

\* ------------------------------------------------------------------ bounds

NProcs == 2
MaxZones == 3
BufferTokens == 64
MaxListLen == 2

Procs == 1..NProcs

\* ------------------------------------------------- Python values (JSON-able)

Str(s) == [t |-> "str", s |-> s]
Num(n) == [t |-> "num", n |-> n]
List(xs) == [t |-> "list", xs |-> xs]
\* a dict is its items in insertion order, keys pairwise distinct
Dict(kv) == [t |-> "dict", kv |-> kv]
None == [t |-> "none"]

Keys(d) == {d.kv[i][1] : i \in DOMAIN d.kv}
Has(d, k) == d.t = "dict" /\ k \in Keys(d)
Get(d, k) == d.kv[CHOOSE i \in DOMAIN d.kv : d.kv[i][1] = k][2]

\* d[k] = v
Put(d, k, v) ==
    IF k \in Keys(d)
    THEN Dict([i \in DOMAIN d.kv |-> IF d.kv[i][1] = k THEN <<k, v>> ELSE d.kv[i]])
    ELSE Dict(Append(d.kv, <<k, v>>))

RECURSIVE PutAll(_, _)
PutAll(d, kv) ==
    IF kv = <<>> THEN d ELSE PutAll(Put(d, Head(kv)[1], Head(kv)[2]), Tail(kv))

RECURSIVE DeepMergeAll(_, _)
DeepMergeAll(d, kv) ==
    IF kv = <<>> THEN d
    ELSE LET k == Head(kv)[1]
             v == Head(kv)[2]
         IN DeepMergeAll(Put(d, k, IF Has(d, k) /\ Get(d, k).t = "dict" /\ v.t = "dict"
                                   THEN PutAll(Get(d, k), v.kv)
                                   ELSE v),
                         Tail(kv))

\* a plausible bug: a record already in the ledger is merged with the new one
DictDeepMerge(d, new) == DeepMergeAll(d, new.kv)

\* dict.update(new): every key of new is set to new's record, other keys stay
DictUpdate(d, new) == PutAll(d, new.kv)

RECURSIVE HasPath(_, _)
\* d[path[1]][path[2]]... raises no KeyError
HasPath(d, path) ==
    IF path = <<>> THEN TRUE
    ELSE Has(d, Head(path)) /\ HasPath(Get(d, Head(path)), Tail(path))

\* ------------------------------------------------------------------- json

TStr(s) == [k |-> "str", s |-> s]
TNum(n) == [k |-> "num", n |-> n]
TPunct(c) == [k |-> c]

RECURSIVE JsonDumpQuoted(_), JsonDumpQuotedItems(_), JsonDumpQuotedMembers(_)
\* a plausible bug: numbers are written as strings (str(n))
JsonDumpQuoted(v) ==
    CASE v.t = "str" -> <<TStr(v.s)>>
      [] v.t = "num" -> <<TStr("n")>>
      [] v.t = "list" -> <<TPunct("[")>> \o JsonDumpQuotedItems(v.xs) \o <<TPunct("]")>>
      [] v.t = "dict" -> <<TPunct("{")>> \o JsonDumpQuotedMembers(v.kv) \o <<TPunct("}")>>
JsonDumpQuotedItems(xs) ==
    IF xs = <<>> THEN <<>>
    ELSE IF Len(xs) = 1 THEN JsonDumpQuoted(xs[1])
    ELSE JsonDumpQuoted(xs[1]) \o <<TPunct(",")>> \o JsonDumpQuotedItems(Tail(xs))
JsonDumpQuotedMembers(kv) ==
    IF kv = <<>> THEN <<>>
    ELSE IF Len(kv) = 1 THEN <<TStr(kv[1][1]), TPunct(":")>> \o JsonDumpQuoted(kv[1][2])
    ELSE <<TStr(kv[1][1]), TPunct(":")>> \o JsonDumpQuoted(kv[1][2])
         \o <<TPunct(",")>> \o JsonDumpQuotedMembers(Tail(kv))

RECURSIVE JsonDump(_), JsonDumpItems(_), JsonDumpMembers(_)
\* json.dump(v, f, indent=2): the document as its tokens (whitespace left out)
JsonDump(v) ==
    CASE v.t = "str" -> <<TStr(v.s)>>
      [] v.t = "num" -> <<TNum(v.n)>>
      [] v.t = "list" -> <<TPunct("[")>> \o JsonDumpItems(v.xs) \o <<TPunct("]")>>
      [] v.t = "dict" -> <<TPunct("{")>> \o JsonDumpMembers(v.kv) \o <<TPunct("}")>>
JsonDumpItems(xs) ==
    IF xs = <<>> THEN <<>>
    ELSE IF Len(xs) = 1 THEN JsonDump(xs[1])
    ELSE JsonDump(xs[1]) \o <<TPunct(",")>> \o JsonDumpItems(Tail(xs))
JsonDumpMembers(kv) ==
    IF kv = <<>> THEN <<>>
    ELSE IF Len(kv) = 1 THEN <<TStr(kv[1][1]), TPunct(":")>> \o JsonDump(kv[1][2])
    ELSE <<TStr(kv[1][1]), TPunct(":")>> \o JsonDump(kv[1][2])
         \o <<TPunct(",")>> \o JsonDumpMembers(Tail(kv))

ParseFail == [ok |-> FALSE, val |-> None, next |-> 0]
ParseOk(v, next) == [ok |-> TRUE, val |-> v, next |-> next]
\* the token at position i is c
TokenIs(ts, i, c) == i <= Len(ts) /\ ts[i].k = c

RECURSIVE ParseValue(_, _), ParseItems(_, _, _), ParseMembers(_, _, _)
\* the JSON decoder: the value that starts at position i, and the position after it
ParseValue(ts, i) ==
    IF i > Len(ts) THEN ParseFail
    ELSE CASE ts[i].k = "str" -> ParseOk(Str(ts[i].s), i + 1)
           [] ts[i].k = "num" -> ParseOk(Num(ts[i].n), i + 1)
           [] ts[i].k = "[" ->
                IF TokenIs(ts, i + 1, "]") THEN ParseOk(List(<<>>), i + 2)
                ELSE ParseItems(ts, i + 1, <<>>)
           [] ts[i].k = "{" ->
                IF TokenIs(ts, i + 1, "}") THEN ParseOk(Dict(<<>>), i + 2)
                ELSE ParseMembers(ts, i + 1, Dict(<<>>))
           [] OTHER -> ParseFail
ParseItems(ts, i, acc) ==
    LET e == ParseValue(ts, i) IN
    IF ~e.ok THEN ParseFail
    ELSE IF TokenIs(ts, e.next, ",") THEN ParseItems(ts, e.next + 1, Append(acc, e.val))
    ELSE IF TokenIs(ts, e.next, "]") THEN ParseOk(List(Append(acc, e.val)), e.next + 1)
    ELSE ParseFail
ParseMembers(ts, i, acc) ==
    IF ~(TokenIs(ts, i, "str") /\ TokenIs(ts, i + 1, ":")) THEN ParseFail
    ELSE LET e == ParseValue(ts, i + 2) IN
         IF ~e.ok THEN ParseFail
         ELSE IF TokenIs(ts, e.next, ",")
              THEN ParseMembers(ts, e.next + 1, Put(acc, ts[i].s, e.val))
         ELSE IF TokenIs(ts, e.next, "}")
              THEN ParseOk(Put(acc, ts[i].s, e.val), e.next + 1)
         ELSE ParseFail

\* json.load(f): the value of the whole document; anything else is a JSONDecodeError
JsonLoad(doc) ==
    LET r == ParseValue(doc, 1) IN
    IF r.ok /\ r.next = Len(doc) + 1 THEN [ok |-> TRUE, val |-> r.val]
    ELSE [ok |-> FALSE, val |-> None]

Absent == [exists |-> FALSE, doc |-> <<>>]
Present(doc) == [exists |-> TRUE, doc |-> doc]

\* --------------------------------------------------------------- programs
\* A script is the sequence of its statements that act on the ledger, the
\* remote account or the terminal. Each statement names its source line.

Stmt(op, stage, api, line) ==
    [op |-> op, stage |-> stage, api |-> api, line |-> line, kind |-> "",
     reads |-> {}, creates |-> "", scope |-> "", try |-> "none"]

Begin(stage, line) == Stmt("begin", stage, "", line)
Return(stage, line) == Stmt("return", stage, "", line)
Call(stage, api, line, kind) == [Stmt("call", stage, api, line) EXCEPT !.kind = kind]
\* the call creates a named resource. scope "account" or "vpc": the name is unique
\* there and a second create fails; scope "lookup": the create is skipped when the
\* lookup before it found the name
Named(s, name, scope) == [s EXCEPT !.creates = name, !.scope = scope]
\* evaluating the statement subscripts the ledger along each of these paths
Reading(s, paths) == [s EXCEPT !.reads = paths]
\* the statement is inside a try whose except clause returns {'error': str(e)}
Try(s) == [s EXCEPT !.try = "error_record"]

IacStages ==
    <<"create_vpc", "create_security_groups", "create_iam_role",
      "create_launch_template", "create_load_balancer", "create_auto_scaling_group">>

DeployStages ==
    <<"deploy_backend_services", "set_up_load_balancer", "configure_dns",
      "deploy_frontend", "create_lambda_functions">>

BackupStages == <<"create_db_backup_lambda">>

AllStages == {IacStages[i] : i \in DOMAIN IacStages}
                 \cup {DeployStages[i] : i \in DOMAIN DeployStages}
                 \cup {BackupStages[i] : i \in DOMAIN BackupStages}

\* the ledger key each stage's record is stored under
StageKey(stage) ==
    CASE stage = "create_vpc" -> "vpc"
      [] stage = "create_security_groups" -> "security_groups"
      [] stage = "create_iam_role" -> "iam"
      [] stage = "create_launch_template" -> "launch_template"
      [] stage = "create_load_balancer" -> "load_balancer"
      [] stage = "create_auto_scaling_group" -> "auto_scaling_group"
      [] stage = "deploy_backend_services" -> "backend_deployment"
      [] stage = "set_up_load_balancer" -> "load_balancer_config"
      [] stage = "configure_dns" -> "dns"
      [] stage = "deploy_frontend" -> "frontend"
      [] stage = "create_lambda_functions" -> "lambda"

\* a plausible bug: each readiness wait comes after the first call that needs it
CreateVpcBodyWaitsLate ==
    <<Begin("create_vpc", 12),
      Call("create_vpc", "ec2.create_vpc", 15, "create"),
      Call("create_vpc", "ec2.modify_vpc_attribute", 31, "mutate"),
      Call("create_vpc", "vpc_available", 28, "wait"),
      Call("create_vpc", "ec2.create_internet_gateway", 37, "create"),
      Call("create_vpc", "ec2.attach_internet_gateway", 49, "mutate"),
      Call("create_vpc", "ec2.describe_availability_zones", 56, "probe"),
      Stmt("check_azs", "create_vpc", "", 63),
      Call("create_vpc", "ec2.create_subnet", 74, "create"),
      Call("create_vpc", "ec2.modify_subnet_attribute", 90, "mutate"),
      Call("create_vpc", "ec2.create_subnet", 96, "create"),
      Call("create_vpc", "ec2.create_subnet", 74, "create"),
      Call("create_vpc", "ec2.modify_subnet_attribute", 90, "mutate"),
      Call("create_vpc", "ec2.create_subnet", 96, "create"),
      Call("create_vpc", "ec2.create_route_table", 113, "create"),
      Call("create_vpc", "ec2.create_route", 126, "mutate"),
      Call("create_vpc", "ec2.associate_route_table", 134, "mutate"),
      Call("create_vpc", "ec2.associate_route_table", 134, "mutate"),
      Call("create_vpc", "ec2.create_route_table", 141, "create"),
      Call("create_vpc", "ec2.associate_route_table", 155, "mutate"),
      Call("create_vpc", "ec2.associate_route_table", 155, "mutate"),
      Call("create_vpc", "ec2.allocate_address", 162, "create"),
      Call("create_vpc", "ec2.create_nat_gateway", 163, "create"),
      Call("create_vpc", "ec2.create_route", 182, "mutate"),
      Call("create_vpc", "nat_gateway_available", 179, "wait"),
      Return("create_vpc", 189)>>

CreateVpcBody ==
    <<Begin("create_vpc", 12),
      Call("create_vpc", "ec2.create_vpc", 15, "create"),
      Call("create_vpc", "vpc_available", 28, "wait"),
      Call("create_vpc", "ec2.modify_vpc_attribute", 31, "mutate"),
      Call("create_vpc", "ec2.create_internet_gateway", 37, "create"),
      Call("create_vpc", "ec2.attach_internet_gateway", 49, "mutate"),
      Call("create_vpc", "ec2.describe_availability_zones", 56, "probe"),
      Stmt("check_azs", "create_vpc", "", 63),
      Call("create_vpc", "ec2.create_subnet", 74, "create"),
      Call("create_vpc", "ec2.modify_subnet_attribute", 90, "mutate"),
      Call("create_vpc", "ec2.create_subnet", 96, "create"),
      Call("create_vpc", "ec2.create_subnet", 74, "create"),
      Call("create_vpc", "ec2.modify_subnet_attribute", 90, "mutate"),
      Call("create_vpc", "ec2.create_subnet", 96, "create"),
      Call("create_vpc", "ec2.create_route_table", 113, "create"),
      Call("create_vpc", "ec2.create_route", 126, "mutate"),
      Call("create_vpc", "ec2.associate_route_table", 134, "mutate"),
      Call("create_vpc", "ec2.associate_route_table", 134, "mutate"),
      Call("create_vpc", "ec2.create_route_table", 141, "create"),
      Call("create_vpc", "ec2.associate_route_table", 155, "mutate"),
      Call("create_vpc", "ec2.associate_route_table", 155, "mutate"),
      Call("create_vpc", "ec2.allocate_address", 162, "create"),
      Call("create_vpc", "ec2.create_nat_gateway", 163, "create"),
      Call("create_vpc", "nat_gateway_available", 179, "wait"),
      Call("create_vpc", "ec2.create_route", 182, "mutate"),
      Return("create_vpc", 189)>>

CreateSecurityGroupsBody ==
    <<Begin("create_security_groups", 198),
      Call("create_security_groups", "ec2.create_security_group", 201, "create"),
      Call("create_security_groups", "ec2.authorize_security_group_ingress", 216, "mutate"),
      Call("create_security_groups", "ec2.create_security_group", 235, "create"),
      Call("create_security_groups", "ec2.authorize_security_group_ingress", 250, "mutate"),
      Call("create_security_groups", "ec2.authorize_security_group_ingress", 269, "mutate"),
      Return("create_security_groups", 281)>>

CreateIamRoleBody ==
    <<Begin("create_iam_role", 386),
      Named(Call("create_iam_role", "iam.create_role", 399, "create"),
            "ProjectOrc-EC2-ECR-Role", "account"),
      Call("create_iam_role", "iam.attach_role_policy", 411, "mutate"),
      Named(Call("create_iam_role", "iam.create_instance_profile", 419, "create"),
            "ProjectOrc-EC2-ECR-Profile", "account"),
      Call("create_iam_role", "iam.add_role_to_instance_profile", 424, "mutate"),
      Stmt("sleep", "create_iam_role", "time.sleep", 434),
      Return("create_iam_role", 436)>>

CreateLaunchTemplateBody ==
    <<Begin("create_launch_template", 443),
      Named(Call("create_launch_template", "ec2.create_launch_template", 463, "create"),
            "ProjectOrc-BackendLT", "account"),
      Return("create_launch_template", 493)>>

CreateLoadBalancerBody ==
    <<Begin("create_load_balancer", 286),
      Named(Call("create_load_balancer", "elbv2.create_load_balancer", 288, "create"),
            "ProjectOrc-ALB", "account"),
      Named(Call("create_load_balancer", "elbv2.create_target_group", 304, "create"),
            "ProjectOrc-Hello-TG", "account"),
      Named(Call("create_load_balancer", "elbv2.create_target_group", 323, "create"),
            "ProjectOrc-Profile-TG", "account"),
      Call("create_load_balancer", "elbv2.create_listener", 343, "create"),
      Call("create_load_balancer", "elbv2.create_rule", 359, "create"),
      Return("create_load_balancer", 379)>>

CreateAutoScalingGroupBody ==
    <<Begin("create_auto_scaling_group", 498),
      Named(Call("create_auto_scaling_group", "autoscaling.create_auto_scaling_group",
                 500, "create"), "ProjectOrc-Backend-ASG", "account"),
      Call("create_auto_scaling_group", "autoscaling.put_scaling_policy", 525, "mutate"),
      Return("create_auto_scaling_group", 539)>>

\* save_infrastructure_details(infrastructure)
SaveInfrastructureDetails ==
    <<Stmt("open_w", "", "open", 545),
      Stmt("dump", "", "json.dump", 546),
      Stmt("print", "", "saved", 547)>>

\* a plausible bug: the stages are called in the order the file defines them
IacProgramAsDefined ==
    CreateVpcBody \o CreateSecurityGroupsBody \o CreateLoadBalancerBody
    \o CreateIamRoleBody \o CreateLaunchTemplateBody \o CreateAutoScalingGroupBody
    \o <<Stmt("combine", "", "", 576)>>
    \o SaveInfrastructureDetails
    \o <<Stmt("print", "", "completed", 588)>>

\* boto3-iac-script.py, __main__
IacProgram ==
    CreateVpcBody \o CreateSecurityGroupsBody \o CreateIamRoleBody
    \o CreateLaunchTemplateBody \o CreateLoadBalancerBody \o CreateAutoScalingGroupBody
    \o <<Stmt("combine", "", "", 576)>>
    \o SaveInfrastructureDetails
    \o <<Stmt("print", "", "completed", 588)>>

\* module level: the ledger load
LoadLedger ==
    <<Stmt("load", "", "json.load", 21),
      Reading(Stmt("read", "", "", 24), {<<"vpc", "vpc_id">>})>>

DeployBackendServicesBody ==
    <<Begin("deploy_backend_services", 31),
      Reading(Call("deploy_backend_services", "autoscaling.put_lifecycle_hook", 36, "mutate"),
              {<<"auto_scaling_group", "asg_name">>}),
      Reading(Call("deploy_backend_services",
                   "autoscaling.put_scheduled_update_group_action", 44, "mutate"),
              {<<"auto_scaling_group", "asg_name">>}),
      Reading(Call("deploy_backend_services",
                   "autoscaling.put_scheduled_update_group_action", 52, "mutate"),
              {<<"auto_scaling_group", "asg_name">>}),
      Return("deploy_backend_services", 61)>>

SetUpLoadBalancerBody ==
    <<Begin("set_up_load_balancer", 65),
      Reading(Stmt("read", "set_up_load_balancer", "", 68), {<<"load_balancer", "alb_arn">>}),
      Call("set_up_load_balancer", "elbv2.modify_load_balancer_attributes", 71, "mutate"),
      Reading(Return("set_up_load_balancer", 85), {<<"load_balancer", "alb_dns">>})>>

ConfigureDnsBody ==
    <<Begin("configure_dns", 92),
      Try(Call("configure_dns", "route53.list_hosted_zones_by_name", 96, "probe")),
      Try(Named(Call("configure_dns", "route53.create_hosted_zone", 108, "create"),
                "project-orc.example.com", "lookup")),
      Try(Call("configure_dns", "route53.change_resource_record_sets", 121, "mutate")),
      Try(Return("configure_dns", 155))>>

DeployFrontendBody ==
    <<Begin("deploy_frontend", 169),
      Named(Call("deploy_frontend", "ec2.create_security_group", 172, "create"),
            "ProjectOrc-Frontend-SG", "vpc"),
      Call("deploy_frontend", "ec2.authorize_security_group_ingress", 186, "mutate"),
      Reading(Stmt("read", "deploy_frontend", "", 217), {<<"load_balancer", "alb_dns">>}),
      Reading(Named(Call("deploy_frontend", "ec2.create_launch_template", 221, "create"),
                    "ProjectOrc-FrontendLT", "account"),
              {<<"iam", "instance_profile_name">>}),
      Reading(Named(Call("deploy_frontend", "autoscaling.create_auto_scaling_group",
                         250, "create"), "ProjectOrc-Frontend-ASG", "account"),
              {<<"vpc", "subnets", "public">>}),
      Call("deploy_frontend", "autoscaling.put_scaling_policy", 270, "mutate"),
      Return("deploy_frontend", 283)>>

\* a plausible bug: the try block covers every remote call of the function
CreateLambdaFunctionsBodyOneTry ==
    <<Begin("create_lambda_functions", 291),
      Try(Call("create_lambda_functions", "s3.create_bucket", 296, "create")),
      Try(Call("create_lambda_functions", "s3.put_bucket_lifecycle_configuration",
               304, "mutate")),
      Try(Named(Call("create_lambda_functions", "iam.create_role", 336, "create"),
                "ProjectOrc-Lambda-Role", "account")),
      Try(Call("create_lambda_functions", "iam.attach_role_policy", 347, "mutate")),
      Try(Call("create_lambda_functions", "iam.attach_role_policy", 352, "mutate")),
      Try(Call("create_lambda_functions", "iam.attach_role_policy", 358, "mutate")),
      Stmt("sleep", "create_lambda_functions", "time.sleep", 367),
      Try(Named(Call("create_lambda_functions", "lambda.create_function", 447, "create"),
                "ProjectOrc-DB-Backup", "account")),
      Try(Call("create_lambda_functions", "events.put_rule", 473, "mutate")),
      Try(Named(Call("create_lambda_functions", "lambda.add_permission", 483, "mutate"),
                "AllowCloudWatchEvents", "account")),
      Try(Call("create_lambda_functions", "events.put_targets", 492, "mutate")),
      Return("create_lambda_functions", 504)>>

CreateLambdaFunctionsBody ==
    <<Begin("create_lambda_functions", 291),
      Try(Call("create_lambda_functions", "s3.create_bucket", 296, "create")),
      Try(Call("create_lambda_functions", "s3.put_bucket_lifecycle_configuration",
               304, "mutate")),
      Named(Call("create_lambda_functions", "iam.create_role", 336, "create"),
            "ProjectOrc-Lambda-Role", "account"),
      Call("create_lambda_functions", "iam.attach_role_policy", 347, "mutate"),
      Call("create_lambda_functions", "iam.attach_role_policy", 352, "mutate"),
      Call("create_lambda_functions", "iam.attach_role_policy", 358, "mutate"),
      Stmt("sleep", "create_lambda_functions", "time.sleep", 367),
      Named(Call("create_lambda_functions", "lambda.create_function", 447, "create"),
            "ProjectOrc-DB-Backup", "account"),
      Call("create_lambda_functions", "events.put_rule", 473, "mutate"),
      Named(Call("create_lambda_functions", "lambda.add_permission", 483, "mutate"),
            "AllowCloudWatchEvents", "account"),
      Call("create_lambda_functions", "events.put_targets", 492, "mutate"),
      Return("create_lambda_functions", 504)>>

\* update_infrastructure_details(new_details)
UpdateInfrastructureDetails ==
    <<Stmt("update", "", "dict.update", 515),
      Stmt("open_w", "", "open", 517),
      Stmt("dump", "", "json.dump", 518),
      Stmt("print", "", "saved", 520)>>

\* complete-deployment-script.py, module level and __main__
DeployProgram ==
    LoadLedger \o DeployBackendServicesBody \o SetUpLoadBalancerBody \o ConfigureDnsBody
    \o DeployFrontendBody \o CreateLambdaFunctionsBody
    \o UpdateInfrastructureDetails
    \o <<Stmt("print", "", "completed", 550)>>

\* lambda-backup-script.py, create_db_backup_lambda
CreateDbBackupLambdaBody ==
    <<Begin("create_db_backup_lambda", 13),
      Try(Call("create_db_backup_lambda", "s3.create_bucket", 20, "create")),
      Try(Call("create_db_backup_lambda", "s3.put_bucket_lifecycle_configuration",
               28, "mutate")),
      Named(Call("create_db_backup_lambda", "iam.create_role", 60, "create"),
            "ProjectOrc-Lambda-Backup-Role", "account"),
      Call("create_db_backup_lambda", "iam.attach_role_policy", 71, "mutate"),
      Call("create_db_backup_lambda", "iam.attach_role_policy", 77, "mutate"),
      Call("create_db_backup_lambda", "iam.attach_role_policy", 83, "mutate"),
      Stmt("sleep", "create_db_backup_lambda", "time.sleep", 92),
      Named(Call("create_db_backup_lambda", "lambda.create_function", 208, "create"),
            "ProjectOrc-DB-Backup", "account"),
      Call("create_db_backup_lambda", "events.put_rule", 235, "mutate"),
      Named(Call("create_db_backup_lambda", "lambda.add_permission", 245, "mutate"),
            "AllowCloudWatchEvents", "account"),
      Call("create_db_backup_lambda", "events.put_targets", 254, "mutate"),
      Call("create_db_backup_lambda", "events.put_rule", 267, "mutate"),
      Named(Call("create_db_backup_lambda", "lambda.add_permission", 277, "mutate"),
            "AllowWeeklyCloudWatchEvents", "account"),
      Call("create_db_backup_lambda", "events.put_targets", 286, "mutate"),
      Stmt("open_config", "create_db_backup_lambda", "open", 311),
      Stmt("dump_config", "create_db_backup_lambda", "json.dump", 312),
      Stmt("print", "create_db_backup_lambda", "saved", 314),
      Return("create_db_backup_lambda", 316)>>

\* lambda-backup-script.py, __main__
BackupProgram ==
    CreateDbBackupLambdaBody
    \o <<Stmt("print", "", "completed", 323),
         Stmt("print_config", "", "s3_bucket", 324),
         Stmt("print", "", "daily", 325),
         Stmt("print", "", "weekly", 326)>>

\* the statement is inside a try whose except clause, named by its outcome,
\* prints the error and returns a 500 response
TryRespond(s, clause) == [s EXCEPT !.try = clause]

\* lambda-backup-script.py, lambda_handler (the code of the backup function; the
\* waiter's loop is a probe statement and a sleep statement)
HandlerProgram ==
    <<Begin("lambda_handler", 102),
      TryRespond(Call("lambda_handler", "rds.create_db_snapshot", 118, "create"),
                 "backup_failed"),
      TryRespond(Stmt("probe", "lambda_handler", "db_snapshot_available", 129),
                 "backup_failed"),
      TryRespond(Stmt("wait_sleep", "lambda_handler", "db_snapshot_available", 129),
                 "backup_failed"),
      Stmt("print", "lambda_handler", "Snapshot completed successfully", 136),
      TryRespond(Call("lambda_handler", "rds.start_export_task", 149, "create"),
                 "export_failed"),
      TryRespond(Call("lambda_handler", "s3.put_object", 170, "mutate"),
                 "export_failed"),
      Stmt("respond", "lambda_handler", "200", 176),
      Stmt("print", "lambda_handler", "Error exporting snapshot to S3", 187),
      Stmt("respond", "lambda_handler", "500", 189),
      Stmt("print", "lambda_handler", "Error during backup process", 198),
      Stmt("respond", "lambda_handler", "500", 199)>>

\* the first line of each except clause of lambda_handler
ExceptLine(clause) == IF clause = "export_failed" THEN 187 ELSE 198

Scripts == {"iac", "deploy"}
AllScripts == Scripts \cup {"backup"}
Program(s) ==
    IF s = "iac" THEN IacProgram
    ELSE IF s = "backup" THEN BackupProgram
    ELSE IF s = "handler" THEN HandlerProgram
    ELSE DeployProgram
Stages(s) ==
    IF s = "iac" THEN IacStages ELSE IF s = "backup" THEN BackupStages ELSE DeployStages

\* the statement after the stage's return statement: where its caller goes on
StageEnd(s, stage) ==
    1 + CHOOSE i \in DOMAIN Program(s) :
            Program(s)[i].op = "return" /\ Program(s)[i].stage = stage

\* ---------------------------------------------------------------- records
\* The remote API's identifiers are opaque: the n-th run's are tagged with n.

Id(name, n) == name \o "-" \o ToString(n)

ErrorRecord(msg) == Dict(<< <<"error", Str(msg)>> >>)

\* create_vpc's return value
VpcInfo(n) ==
    Dict(<< <<"vpc_id", Str(Id("vpc", n))>>,
            <<"igw_id", Str(Id("igw", n))>>,
            <<"subnets",
              Dict(<< <<"public", List(<<Str(Id("subnet-public1", n)),
                                         Str(Id("subnet-public2", n))>>)>>,
                      <<"private", List(<<Str(Id("subnet-private1", n)),
                                          Str(Id("subnet-private2", n))>>)>> >>)>>,
            <<"public_rt_id", Str(Id("rtb-public", n))>>,
            <<"private_rt_id", Str(Id("rtb-private", n))>>,
            <<"nat_gateway_id", Str(Id("nat", n))>> >>)

SgInfo(n) ==
    Dict(<< <<"alb_sg_id", Str(Id("sg-alb", n))>>,
            <<"backend_sg_id", Str(Id("sg-backend", n))>> >>)

IamInfo(n) ==
    Dict(<< <<"role_name", Str("ProjectOrc-EC2-ECR-Role")>>,
            <<"role_arn", Str(Id("arn-role", n))>>,
            <<"instance_profile_name", Str("ProjectOrc-EC2-ECR-Profile")>>,
            <<"instance_profile_arn", Str(Id("arn-profile", n))>> >>)

LtInfo(n) ==
    Dict(<< <<"lt_id", Str(Id("lt", n))>>, <<"lt_version", Num(1)>> >>)

LbInfo(n) ==
    Dict(<< <<"alb_arn", Str(Id("arn-alb", n))>>,
            <<"alb_dns", Str(Id("dns-alb", n))>>,
            <<"hello_tg_arn", Str(Id("arn-tg-hello", n))>>,
            <<"profile_tg_arn", Str(Id("arn-tg-profile", n))>> >>)

AsgInfo(n) == Dict(<< <<"asg_name", Str("ProjectOrc-Backend-ASG")>> >>)

BackendInfo(n) ==
    Dict(<< <<"status",
              Str("Backend ASG configured with lifecycle hooks and scheduled scaling")>> >>)

\* set_up_load_balancer's return value, read from the loaded ledger
LbConfigInfo(ledger) ==
    Dict(<< <<"alb_arn", Get(Get(ledger, "load_balancer"), "alb_arn")>>,
            <<"alb_dns", Get(Get(ledger, "load_balancer"), "alb_dns")>> >>)

DnsInfo(n) ==
    Dict(<< <<"domain_name", Str("project-orc.example.com")>>,
            <<"hosted_zone_id", Str(Id("zone", n))>>,
            <<"nameservers", List(<<>>)>> >>)

FrontendInfo(n) ==
    Dict(<< <<"frontend_sg_id", Str(Id("sg-frontend", n))>>,
            <<"frontend_lt_id", Str(Id("lt-frontend", n))>>,
            <<"frontend_asg_name", Str("ProjectOrc-Frontend-ASG")>> >>)

LambdaInfo(n) ==
    Dict(<< <<"lambda_role_name", Str("ProjectOrc-Lambda-Role")>>,
            <<"lambda_role_arn", Str(Id("arn-lambda-role", n))>>,
            <<"lambda_function_name", Str("ProjectOrc-DB-Backup")>>,
            <<"lambda_function_arn", Str(Id("arn-lambda", n))>>,
            <<"s3_bucket", Str(Id("project-orc-db-backups", n))>>,
            <<"cloudwatch_rule", Str("ProjectOrc-Nightly-Backup")>> >>)

\* create_db_backup_lambda's return value, also written to backup_config.json
BackupConfig(n) ==
    Dict(<< <<"lambda_role_name", Str("ProjectOrc-Lambda-Backup-Role")>>,
            <<"lambda_role_arn", Str(Id("arn-lambda-backup-role", n))>>,
            <<"lambda_function_name", Str("ProjectOrc-DB-Backup")>>,
            <<"lambda_function_arn", Str(Id("arn-lambda", n))>>,
            <<"s3_bucket", Str(Id("project-orc-db-backups", n))>>,
            <<"daily_cloudwatch_rule", Str("ProjectOrc-Daily-DB-Backup")>>,
            <<"weekly_cloudwatch_rule", Str("ProjectOrc-Weekly-Full-DB-Backup")>> >>)

\* the record a stage returns when none of its calls failed
StageRecord(stage, n, ledger) ==
    CASE stage = "create_vpc" -> VpcInfo(n)
      [] stage = "create_security_groups" -> SgInfo(n)
      [] stage = "create_iam_role" -> IamInfo(n)
      [] stage = "create_launch_template" -> LtInfo(n)
      [] stage = "create_load_balancer" -> LbInfo(n)
      [] stage = "create_auto_scaling_group" -> AsgInfo(n)
      [] stage = "deploy_backend_services" -> BackendInfo(n)
      [] stage = "set_up_load_balancer" -> LbConfigInfo(ledger)
      [] stage = "configure_dns" -> DnsInfo(n)
      [] stage = "deploy_frontend" -> FrontendInfo(n)
      [] stage = "create_lambda_functions" -> LambdaInfo(n)
      [] stage = "create_db_backup_lambda" -> BackupConfig(n)

RECURSIVE Collect(_, _)
\* {key of stage: the stage's record}, in the order written
Collect(stages, loc) ==
    IF stages = <<>> THEN <<>>
    ELSE <<<<StageKey(Head(stages)), loc[Head(stages)]>>>> \o Collect(Tail(stages), loc)

\* a plausible bug: one stage's record is left out of the ledger
IacLedgerDropping(loc) == Dict(Collect(SubSeq(IacStages, 1, 5), loc))

\* the ledger boto3-iac-script assembles from its six records
IacLedger(loc) == Dict(Collect(IacStages, loc))

\* the new_details complete-deployment-script passes to update_infrastructure_details
NewDetails(loc) == Dict(Collect(DeployStages, loc))

Without(d, k) == Dict(SelectSeq(d.kv, LAMBDA e : e[1] # k))

\* ------------------------------------------------------------------- Init
\* The ledger file and the account as earlier use left them: nothing yet; an
\* earlier boto3-iac-script run's file, whole or lacking one of the keys the
\* deployment script subscripts; an earlier deployment's file whose frontend
\* and backup resources were since removed from the account.

IacStageSet == {IacStages[i] : i \in DOMAIN IacStages}

Locals0 == [s \in AllStages |-> IF s \in IacStageSet THEN StageRecord(s, 0, None) ELSE None]
Ledger0 == IacLedger(Locals0)
LedgerDeployed0 ==
    DictUpdate(Ledger0,
               NewDetails([s \in AllStages |->
                              IF s = "configure_dns"
                              THEN ErrorRecord("route53.list_hosted_zones_by_name")
                              ELSE StageRecord(s, 0, Ledger0)]))

\* the top-level ledger keys complete-deployment-script subscripts
ReadKeys ==
    UNION {{path[1] : path \in DeployProgram[i].reads} : i \in DOMAIN DeployProgram}

IacNames ==
    {IacProgram[i].creates : i \in {j \in DOMAIN IacProgram : IacProgram[j].scope = "account"}}

InitWorlds ==
    {[file |-> Absent, remote |-> {}]}
    \cup {[file |-> Present(JsonDump(L)), remote |-> IacNames] :
             L \in {Ledger0, LedgerDeployed0} \cup {Without(Ledger0, k) : k \in ReadKeys}}

NoException == [exc |-> "", line |-> 0]

Init ==
    /\ \E w \in InitWorlds : file = w.file /\ remote = w.remote
    /\ zones = 0
    /\ response = [p \in Procs |-> {}]
    /\ script = [p \in Procs |-> "none"]
    /\ status = [p \in Procs |-> "idle"]
    /\ pc = [p \in Procs |-> 1]
    /\ infrastructure = [p \in Procs |-> None]
    /\ locals = [p \in Procs |-> [s \in AllStages |-> None]]
    /\ started = [p \in Procs |-> <<>>]
    /\ calls = [p \in Procs |-> <<>>]
    /\ caught = [p \in Procs |-> <<>>]
    /\ raisedAt = [p \in Procs |-> NoException]
    /\ out = [p \in Procs |-> <<>>]
    /\ file0 = [p \in Procs |-> Absent]
    /\ config = Absent
    /\ clock = [p \in Procs |-> 0]

\* ---------------------------------------------------------------- helpers

Running(p) == status[p] = "running"
Cur(p) == Program(script[p])[pc[p]]
At(p, op) == Running(p) /\ Cur(p).op = op

\* every ledger subscript of the current statement finds its key
ReadsOk(p) == \A path \in Cur(p).reads : HasPath(infrastructure[p], path)

\* the name the current statement's create call must find free
QualNameOf(p, s) ==
    IF s.scope = "vpc"
    THEN s.creates \o "@" \o Get(Get(infrastructure[p], "vpc"), "vpc_id").s
    ELSE s.creates

QualName(p) == QualNameOf(p, Cur(p))

\* the statement is a call that creates a resource in the remote account
Creates(s) == s.op = "call" /\ (s.creates # "" \/ s.kind = "create")

\* the resource the create call at statement i of p's script leaves in the
\* remote account: known by its name, or by the identifier the service gives it
Resource(p, i) ==
    LET s == Program(script[p])[i]
    IN IF s.scope = "lookup" THEN s.creates \o "."
       ELSE IF s.creates # "" THEN QualNameOf(p, s)
       ELSE Id(s.api, p) \o "." \o ToString(i)

\* complete-deployment-script.py line 529
DomainName == "project-orc.example.com"

\* the names hosted zones of the account can have: Route 53 reports a zone's
\* name with a trailing dot
ZoneNames ==
    {DomainName \o ".", DomainName, "www." \o DomainName \o ".", "example.com."}

\* response['HostedZones'] of list_hosted_zones_by_name: the account's zones
HostedZones == remote \cap ZoneNames

\* a plausible bug: only the name as Route 53 reports it is compared
MatchesDotted(zone) == zone = DomainName \o "."

\* line 102: zone['Name'] == f"{domain_name}." or zone['Name'] == domain_name
Matches(zone) == zone = DomainName \o "." \/ zone = DomainName

\* "if not hosted_zone" is false: the for loop found a zone of the response
Found(p) == Cur(p).scope = "lookup" /\ \E zone \in response[p] : Matches(zone)

Duplicate(p) == Cur(p).scope \in {"account", "vpc"} /\ QualName(p) \in remote

Goto(p, i) == pc' = [pc EXCEPT ![p] = i]

\* a plausible bug: every stage body is wrapped in a best-effort handler
HandlerCatchAll(s) == IF s.stage = "" THEN "none" ELSE "error_record"

\* the except clause that covers statement s: none, or "return {'error': str(e)}"
Handler(s) == s.try

\* a plausible bug: the exception is swallowed and the script goes on
OnUncaughtGoOn(p, exc) ==
    /\ raisedAt' = [raisedAt EXCEPT ![p] = [exc |-> exc, line |-> Cur(p).line]]
    /\ Goto(p, pc[p] + 1)
    /\ UNCHANGED status

\* an exception no except clause covers: traceback, the process ends
OnUncaught(p, exc) ==
    /\ status' = [status EXCEPT ![p] = "raised"]
    /\ raisedAt' = [raisedAt EXCEPT ![p] = [exc |-> exc, line |-> Cur(p).line]]
    /\ UNCHANGED pc

\* exception exc raised by the current statement
Raise(p, exc) ==
    IF Handler(Cur(p)) = "error_record"
    THEN /\ caught' = [caught EXCEPT ![p] = Append(@, [exc |-> exc, line |-> Cur(p).line])]
         /\ locals' = [locals EXCEPT ![p][Cur(p).stage] = ErrorRecord(Cur(p).api)]
         /\ Goto(p, StageEnd(script[p], Cur(p).stage))
         /\ UNCHANGED <<status, raisedAt>>
    ELSE IF Handler(Cur(p)) \in {"backup_failed", "export_failed"}
    THEN /\ caught' = [caught EXCEPT ![p] = Append(@, [exc |-> exc, line |-> Cur(p).line])]
         /\ Goto(p, CHOOSE i \in DOMAIN Program(script[p]) :
                        Program(script[p])[i].line = ExceptLine(Handler(Cur(p))))
         /\ UNCHANGED <<status, raisedAt, locals>>
    ELSE /\ OnUncaught(p, exc)
         /\ UNCHANGED <<caught, locals>>

\* ---------------------------------------------------------------- actions

\* the operator invokes script s; invocations follow one another
Start(p, s) ==
    /\ status[p] = "idle"
    /\ \A q \in Procs : q < p => status[q] \notin {"idle", "running"}
    /\ script' = [script EXCEPT ![p] = s]
    /\ status' = [status EXCEPT ![p] = "running"]
    /\ file0' = [file0 EXCEPT ![p] = file]
    /\ UNCHANGED <<clock, config, file, remote, zones, response, pc, infrastructure, locals, started, calls,
                   caught, raisedAt, out>>

\* a plausible bug: the missing file is reported and the script goes on
OnFileNotFoundGoOn(p) ==
    /\ out' = [out EXCEPT ![p] = Append(@, "run the VPC setup script first")]
    /\ infrastructure' = [infrastructure EXCEPT ![p] = Dict(<<>>)]
    /\ Goto(p, pc[p] + 1)
    /\ UNCHANGED <<status, raisedAt>>

\* complete-deployment-script.py lines 25-27: except FileNotFoundError
OnFileNotFound(p) ==
    /\ out' = [out EXCEPT ![p] = Append(@, "run the VPC setup script first")]
    /\ status' = [status EXCEPT ![p] = "exit1"]
    /\ UNCHANGED <<pc, infrastructure, raisedAt>>

\* complete-deployment-script.py lines 20-23: open and json.load
Load(p) ==
    /\ At(p, "load")
    /\ IF ~file.exists
       THEN OnFileNotFound(p)
       ELSE IF ~JsonLoad(file.doc).ok
       THEN \* not an except clause's exception: the JSONDecodeError propagates
            /\ OnUncaught(p, "JSONDecodeError")
            /\ UNCHANGED <<out, infrastructure>>
       ELSE /\ infrastructure' = [infrastructure EXCEPT ![p] = JsonLoad(file.doc).val]
            /\ out' = [out EXCEPT ![p] = Append(@, "loaded")]
            /\ Goto(p, pc[p] + 1)
            /\ UNCHANGED <<status, raisedAt>>
    /\ UNCHANGED <<clock, config, file, remote, zones, response, script, locals, started, calls, caught, file0>>

\* a statement that only subscripts the ledger
Read(p) ==
    /\ At(p, "read")
    /\ ReadsOk(p)
    /\ Goto(p, pc[p] + 1)
    /\ UNCHANGED <<clock, config, file, remote, zones, response, script, status, infrastructure, locals, started,
                   calls, caught, raisedAt, out, file0>>

\* a ledger subscript of the current statement raises KeyError
KeyError(p) ==
    /\ Running(p)
    /\ ~ReadsOk(p)
    /\ Raise(p, "KeyError")
    /\ UNCHANGED <<clock, config, file, remote, zones, response, script, infrastructure, started, calls, out, file0>>

\* a plausible bug (the skip-on-existing-output check the scripts lack): a stage
\* whose key the ledger already holds is not run, its record is taken from there
BeginStageSkipExisting(p) ==
    /\ At(p, "begin")
    /\ IF Has(infrastructure[p], StageKey(Cur(p).stage))
       THEN /\ locals' = [locals EXCEPT ![p][Cur(p).stage] =
                              Get(infrastructure[p], StageKey(Cur(p).stage))]
            /\ Goto(p, StageEnd(script[p], Cur(p).stage))
            /\ UNCHANGED started
       ELSE /\ started' = [started EXCEPT ![p] = Append(@, Cur(p).stage)]
            /\ Goto(p, pc[p] + 1)
            /\ locals' = locals
    /\ UNCHANGED <<clock, config, file, remote, zones, response, script, status, infrastructure, calls,
                   caught, raisedAt, out, file0>>

\* a stage function is entered
BeginStage(p) ==
    /\ At(p, "begin")
    /\ started' = [started EXCEPT ![p] = Append(@, Cur(p).stage)]
    /\ Goto(p, pc[p] + 1)
    /\ UNCHANGED <<clock, config, file, remote, zones, response, script, status, infrastructure, locals, calls,
                   caught, raisedAt, out, file0>>

Issued(p) == calls' = [calls EXCEPT ![p] = Append(@, [api |-> Cur(p).api, line |-> Cur(p).line])]

\* a remote call (or readiness wait) that succeeds
CallOk(p) ==
    /\ At(p, "call")
    /\ ReadsOk(p)
    /\ ~Duplicate(p) /\ ~Found(p)
    /\ Issued(p)
    /\ remote' = IF Creates(Cur(p)) THEN remote \cup {Resource(p, pc[p])} ELSE remote
    /\ IF Cur(p).api = "ec2.describe_availability_zones"
       THEN zones' \in 1..MaxZones
       ELSE UNCHANGED zones
    /\ Goto(p, pc[p] + 1)
    /\ response' = IF Cur(p).api = "route53.list_hosted_zones_by_name"
                   THEN [response EXCEPT ![p] = HostedZones]
                   ELSE response
    /\ UNCHANGED <<clock, config, file, script, status, infrastructure, locals, started, caught,
                   raisedAt, out, file0>>

\* a plausible bug: a readiness wait that times out or fails is caught and the
\* function goes on
CallFailWaitIgnored(p) ==
    /\ At(p, "call")
    /\ ReadsOk(p)
    /\ ~Found(p)
    /\ Issued(p)
    /\ IF Cur(p).kind = "wait"
       THEN /\ caught' = [caught EXCEPT ![p] =
                              Append(@, [exc |-> "WaiterError", line |-> Cur(p).line])]
            /\ Goto(p, pc[p] + 1)
            /\ UNCHANGED <<status, raisedAt, locals>>
       ELSE Raise(p, IF Duplicate(p) THEN "DuplicateResource" ELSE "RemoteError")
    /\ UNCHANGED <<clock, config, file, remote, zones, response, script, infrastructure, started,
                   out, file0>>

\* a plausible bug: a rejected call is issued again (up to three times)
CallFailRetried(p) ==
    /\ At(p, "call")
    /\ ReadsOk(p)
    /\ Cardinality({i \in DOMAIN calls[p] : calls[p][i].line = Cur(p).line}) < 3
    /\ Issued(p)
    /\ UNCHANGED <<clock, config, file, remote, zones, response, script, status, pc, infrastructure,
                   locals, started, caught, raisedAt, out, file0>>

\* a remote call the API rejects (always so for a name already taken), or a
\* readiness wait that ends in timeout or failure
CallFail(p) ==
    /\ At(p, "call")
    /\ ReadsOk(p)
    /\ ~Found(p)
    /\ Issued(p)
    /\ Raise(p, IF Duplicate(p) THEN "DuplicateResource"
                ELSE IF Cur(p).kind = "wait" THEN "WaiterError" ELSE "RemoteError")
    /\ UNCHANGED <<clock, config, file, remote, zones, response, script, infrastructure, started, out, file0>>

\* "if not hosted_zone" is false: the lookup found the zone, no create call
SkipFound(p) ==
    /\ At(p, "call")
    /\ Found(p)
    /\ Goto(p, pc[p] + 1)
    /\ UNCHANGED <<clock, config, file, remote, zones, response, script, status, infrastructure, locals, started,
                   calls, caught, raisedAt, out, file0>>

\* boto3-iac-script.py lines 63-64
CheckAzs(p) ==
    /\ At(p, "check_azs")
    /\ IF zones < 2
       THEN Raise(p, "Exception")
       ELSE Goto(p, pc[p] + 1) /\ UNCHANGED <<status, raisedAt, caught, locals>>
    /\ UNCHANGED <<clock, config, file, remote, zones, response, script, infrastructure, started, calls, out, file0>>

\* time.sleep(15)
SleepSeconds == 15

Sleep(p) ==
    /\ At(p, "sleep")
    /\ clock' = [clock EXCEPT ![p] = @ + SleepSeconds]
    /\ Goto(p, pc[p] + 1)
    /\ UNCHANGED <<config, file, remote, zones, response, script, status, infrastructure, locals,
                   started, calls, caught, raisedAt, out, file0>>

\* a stage function returns its record to __main__
\* a plausible bug: boto3-iac-script checkpoints each stage's record as the
\* stage returns
ReturnStageFlushing(p) ==
    /\ At(p, "return")
    /\ ReadsOk(p)
    /\ locals' = [locals EXCEPT ![p][Cur(p).stage] =
                      StageRecord(Cur(p).stage, p, infrastructure[p])]
    /\ file' = IF script[p] = "iac"
               THEN Present(JsonDump(Dict(<< <<StageKey(Cur(p).stage),
                                              StageRecord(Cur(p).stage, p, None)>> >>)))
               ELSE file
    /\ Goto(p, pc[p] + 1)
    /\ UNCHANGED <<clock, config, remote, zones, response, script, status, infrastructure, started, calls,
                   caught, raisedAt, out, file0>>

ReturnStage(p) ==
    /\ At(p, "return")
    /\ ReadsOk(p)
    /\ locals' = [locals EXCEPT ![p][Cur(p).stage] =
                      StageRecord(Cur(p).stage, p, infrastructure[p])]
    /\ Goto(p, pc[p] + 1)
    /\ UNCHANGED <<clock, config, file, remote, zones, response, script, status, infrastructure, started, calls,
                   caught, raisedAt, out, file0>>

\* boto3-iac-script.py lines 576-583
Combine(p) ==
    /\ At(p, "combine")
    /\ infrastructure' = [infrastructure EXCEPT ![p] = IacLedger(locals[p])]
    /\ Goto(p, pc[p] + 1)
    /\ UNCHANGED <<clock, config, file, remote, zones, response, script, status, locals, started, calls, caught,
                   raisedAt, out, file0>>

\* complete-deployment-script.py line 515
Update(p) ==
    /\ At(p, "update")
    /\ infrastructure' = [infrastructure EXCEPT ![p] = DictUpdate(@, NewDetails(locals[p]))]
    /\ Goto(p, pc[p] + 1)
    /\ UNCHANGED <<clock, config, file, remote, zones, response, script, status, locals, started, calls, caught,
                   raisedAt, out, file0>>

\* open('infrastructure_details.json', 'w'): the file is created or truncated
OpenW(p) ==
    /\ At(p, "open_w")
    /\ file' = Present(<<>>)
    /\ Goto(p, pc[p] + 1)
    /\ UNCHANGED <<clock, config, remote, zones, response, script, status, infrastructure, locals, started, calls,
                   caught, raisedAt, out, file0>>

\* json.dump(infrastructure, f, indent=2) and the close at the end of the with block
Dump(p) ==
    /\ At(p, "dump")
    /\ file' = Present(JsonDump(infrastructure[p]))
    /\ Goto(p, pc[p] + 1)
    /\ UNCHANGED <<clock, config, remote, zones, response, script, status, infrastructure, locals, started, calls,
                   caught, raisedAt, out, file0>>

\* the lengths a killed json.dump can leave on disk: whole buffers only
FlushedLengths(doc) == {k \in 0..(Len(doc) - 1) : k % BufferTokens = 0}

\* the process is killed inside the with block, before the file is closed
Kill(p) ==
    /\ At(p, "dump")
    /\ \E k \in FlushedLengths(JsonDump(infrastructure[p])) :
           file' = Present(SubSeq(JsonDump(infrastructure[p]), 1, k))
    /\ status' = [status EXCEPT ![p] = "killed"]
    /\ UNCHANGED <<clock, config, remote, zones, response, script, pc, infrastructure, locals, started, calls,
                   caught, raisedAt, out, file0>>

\* a print; after the last one the script ends with status 0
PrintLine(p) ==
    /\ At(p, "print")
    /\ out' = [out EXCEPT ![p] = Append(@, Cur(p).api)]
    /\ IF pc[p] = Len(Program(script[p]))
       THEN status' = [status EXCEPT ![p] = "exit0"] /\ UNCHANGED pc
       ELSE Goto(p, pc[p] + 1) /\ UNCHANGED status
    /\ UNCHANGED <<clock, config, file, remote, zones, response, script, infrastructure, locals, started, calls,
                   caught, raisedAt, file0>>

\* open('backup_config.json', 'w'): the file is created or truncated
OpenConfig(p) ==
    /\ At(p, "open_config")
    /\ config' = Present(<<>>)
    /\ Goto(p, pc[p] + 1)
    /\ UNCHANGED <<clock, file, remote, zones, response, script, status, infrastructure, locals,
                   started, calls, caught, raisedAt, out, file0>>

\* json.dump(backup_config, config_file, indent=2) and the close of the file
DumpConfig(p) ==
    /\ At(p, "dump_config")
    /\ config' = Present(JsonDump(BackupConfig(p)))
    /\ Goto(p, pc[p] + 1)
    /\ UNCHANGED <<clock, file, remote, zones, response, script, status, infrastructure, locals,
                   started, calls, caught, raisedAt, out, file0>>

\* lambda-backup-script.py line 324: print(f"... {backup_config['s3_bucket']}")
PrintConfig(p) ==
    /\ At(p, "print_config")
    /\ IF Has(locals[p]["create_db_backup_lambda"], Cur(p).api)
       THEN /\ out' = [out EXCEPT ![p] = Append(@, Cur(p).api)]
            /\ Goto(p, pc[p] + 1)
            /\ UNCHANGED <<status, raisedAt>>
       ELSE /\ OnUncaught(p, "KeyError")
            /\ UNCHANGED out
    /\ UNCHANGED <<clock, config, file, remote, zones, response, script, infrastructure, locals, started,
                   calls, caught, file0>>

\* WaiterConfig={'Delay': 30, 'MaxAttempts': 60}
Delay == 30
\* a plausible bug: the two values of the configuration are swapped
MaxAttemptsSwapped == Delay
MaxAttempts == 60

\* the probes the waiter has issued so far
Attempts(p) == Cardinality({i \in DOMAIN calls[p] : calls[p][i].line = Cur(p).line})

\* waiter.wait, one pass of its loop: the status probe and what follows from
\* its answer (return, failure, max attempts exceeded, or go on to sleep)
Probe(p) ==
    /\ At(p, "probe")
    /\ \E r \in {"pending", "available", "failed"} :
           /\ calls' = [calls EXCEPT ![p] =
                            Append(@, [api |-> Cur(p).api \o ":" \o r, line |-> Cur(p).line])]
           /\ IF r = "available"
              THEN Goto(p, pc[p] + 2) /\ UNCHANGED <<status, raisedAt, caught, locals>>
              ELSE IF r = "failed"
              THEN Raise(p, "WaiterError:failure")
              ELSE IF Attempts(p) + 1 >= MaxAttempts
              THEN Raise(p, "WaiterError:max_attempts")
              ELSE Goto(p, pc[p] + 1) /\ UNCHANGED <<status, raisedAt, caught, locals>>
    /\ UNCHANGED <<clock, config, file, remote, zones, response, script, infrastructure, started,
                   out, file0>>

\* waiter.wait: the sleep between two probes
WaitSleep(p) ==
    /\ At(p, "wait_sleep")
    /\ clock' = [clock EXCEPT ![p] = @ + Delay]
    /\ Goto(p, pc[p] - 1)
    /\ UNCHANGED <<config, file, remote, zones, response, script, status, infrastructure, locals,
                   started, calls, caught, raisedAt, out, file0>>

\* lambda_handler returns its response
Respond(p) ==
    /\ At(p, "respond")
    /\ out' = [out EXCEPT ![p] = Append(@, Cur(p).api)]
    /\ status' = [status EXCEPT ![p] = "exit0"]
    /\ UNCHANGED <<clock, config, file, remote, zones, response, script, pc, infrastructure, locals,
                   started, calls, caught, raisedAt, file0>>

Next ==
    \E p \in Procs :
        \/ \E s \in Scripts : Start(p, s)
        \/ Load(p)
        \/ Read(p)
        \/ KeyError(p)
        \/ BeginStage(p)
        \/ CallOk(p)
        \/ CallFail(p)
        \/ SkipFound(p)
        \/ CheckAzs(p)
        \/ Sleep(p)
        \/ ReturnStage(p)
        \/ Combine(p)
        \/ Update(p)
        \/ OpenW(p)
        \/ Dump(p)
        \/ Kill(p)
        \/ PrintLine(p)

Spec == Init /\ [][Next]_vars

\* the three scripts: lambda-backup-script.py is invoked as well
NextAll ==
    \/ Next
    \/ \E p \in Procs :
           \/ Start(p, "backup")
           \/ OpenConfig(p)
           \/ DumpConfig(p)
           \/ PrintConfig(p)

SpecAll == Init /\ [][NextAll]_vars

\* ----------------------------------------------------------------- claims

\* no invocation followed p's: the file is as p left it
Latest(p) == \A q \in Procs : q > p => status[q] = "idle"

Ended(p) == status[p] \in {"exit0", "exit1", "raised", "killed"}

\* the top-level keys of a ledger file that holds a complete JSON object
KeysOfFile(f) ==
    LET r == JsonLoad(f.doc) IN
    IF f.exists /\ r.ok /\ r.val.t = "dict" THEN Keys(r.val) ELSE {}

StageSet(s) == {Stages(s)[i] : i \in DOMAIN Stages(s)}
StageIndex(s, stage) ==
    IF stage = "" THEN 0 ELSE CHOOSE i \in DOMAIN Stages(s) : Stages(s)[i] = stage
StartedSet(p) == {started[p][i] : i \in DOMAIN started[p]}
\* the stages of p's run that returned a record that is no error record
Succeeded(p) == {s \in AllStages : locals[p][s] # None /\ ~Has(locals[p][s], "error")}
Printed(p, msg) == \E i \in DOMAIN out[p] : out[p][i] = msg

\* C1: when infrastructure_details.json is absent at the start of
\* complete-deployment-script, the script prints the diagnostic and exits with
\* status 1 before any stage runs: it enters no stage, issues no remote call and
\* does not create the ledger file.
C1_MissingFileExitsBeforeAnyStage ==
    \A p \in Procs :
        (script[p] = "deploy" /\ ~file0[p].exists) =>
            /\ status[p] \in {"running", "exit1"}
            /\ status[p] = "running" => pc[p] = 1 /\ out[p] = <<>>
            /\ status[p] = "exit1" => out[p] = <<"run the VPC setup script first">>
            /\ started[p] = <<>>
            /\ calls[p] = <<>>
            /\ Latest(p) => ~file.exists

C1_Witness ==
    \E p \in Procs : script[p] = "deploy" /\ ~file0[p].exists /\ status[p] = "exit1"

\* C2: between the end of a stage and the start of the next, the ledger file
\* on disk already contains the ended stage's output key.
C2_FlushedAfterEveryStage ==
    \A p \in Procs :
        Running(p) =>
            \A s \in StageSet(script[p]) :
                locals[p][s] # None => StageKey(s) \in KeysOfFile(file)

\* C3: after a stage raises, no later stage is started and the ledger
\* file contains no output key of a stage that did not run.
C3_NoKeyOfUnrunStage ==
    \A p \in Procs :
        (status[p] = "raised" /\ Cur(p).stage # "" /\ Latest(p)) =>
            /\ started[p] = SubSeq(Stages(script[p]), 1, StageIndex(script[p], Cur(p).stage))
            /\ \A s \in StageSet(script[p]) \ StartedSet(p) :
                   StageKey(s) \notin KeysOfFile(file)

\* What the scripts do guarantee when a stage raises: the process has halted
\* with no stage after the failing one started, and the halted run has added
\* no key to the ledger file (keys of stages that did not run are keys the file
\* held before the run).
HaltedRunAddsNoKey ==
    \A p \in Procs :
        (raisedAt[p] # NoException /\ Cur(p).stage # "") =>
            /\ status[p] = "raised"
            /\ started[p] = SubSeq(Stages(script[p]), 1, StageIndex(script[p], Cur(p).stage))
            /\ Latest(p) =>
                   LET now == KeysOfFile(file)
                       before == KeysOfFile(file0[p])
                   IN \A s \in StageSet(script[p]) \ StartedSet(p) :
                          StageKey(s) \in now => StageKey(s) \in before

HaltedRunWitness ==
    \E p \in Procs :
        /\ status[p] = "raised" /\ Cur(p).stage = "create_security_groups"
        /\ locals[p]["create_vpc"] # None
        /\ "auto_scaling_group" \in KeysOfFile(file)
        /\ Latest(p)

\* C4: when a stage of boto3-iac-script raises, the ledger file on disk
\* afterwards contains the output key of every stage that succeeded before it.
C4_PartialProgressFlushed ==
    \A p \in Procs :
        (script[p] = "iac" /\ status[p] = "raised" /\ Latest(p)) =>
            \A s \in Succeeded(p) : StageKey(s) \in KeysOfFile(file)

\* C5: when a remote call inside configure_dns fails, configure_dns returns an
\* error record instead of raising, deploy_frontend is still started, and the
\* ledger records the error record under 'dns'.
C5_DnsErrorRecorded ==
    \A p \in Procs :
        (script[p] = "deploy" /\ Ended(p) /\ Has(locals[p]["configure_dns"], "error")) =>
            /\ "deploy_frontend" \in StartedSet(p)
            /\ Has(infrastructure[p], "dns")
            /\ Get(infrastructure[p], "dns") = locals[p]["configure_dns"]

StmtIndex(s, op) == CHOOSE i \in DOMAIN Program(s) : Program(s)[i].op = op
\* the ledger complete-deployment-script loaded at its start
Loaded0(p) == JsonLoad(file0[p].doc).val

\* C6: in a run where every stage succeeds the ledger written holds every
\* stage's key: boto3-iac-script writes exactly its six keys, each mapped to the
\* record its stage returned, and prints the completion message only after the
\* write; complete-deployment-script's final ledger holds the loaded keys and
\* its five keys, each mapped to the record its stage returned.
C6_CompletedRunWritesEveryKey ==
    \A p \in Procs :
        (Printed(p, "completed") /\ Latest(p)) =>
            LET r == JsonLoad(file.doc) IN
            /\ file.exists /\ r.ok /\ r.val.t = "dict"
            /\ Printed(p, "saved")
            /\ \A s \in StageSet(script[p]) :
                   /\ locals[p][s] # None
                   /\ Has(r.val, StageKey(s))
                   /\ Get(r.val, StageKey(s)) = locals[p][s]
            /\ script[p] = "iac" =>
                   /\ Succeeded(p) = StageSet("iac")
                   /\ \A s \in StageSet("iac") : locals[p][s] = StageRecord(s, p, None)
                   /\ Keys(r.val) = {StageKey(s) : s \in StageSet("iac")}
            /\ script[p] = "deploy" =>
                   Keys(r.val) = Keys(Loaded0(p)) \cup {StageKey(s) : s \in StageSet("deploy")}

C6_Witness ==
    \E p, q \in Procs :
        /\ script[p] = "iac" /\ status[p] = "exit0"
        /\ script[q] = "deploy" /\ status[q] = "exit0"
        /\ Succeeded(q) = StageSet("deploy")

\* C7: if the process is killed during save_infrastructure_details or
\* update_infrastructure_details, the ledger file is the complete previous
\* checkpoint or the complete new one, never an empty or truncated document.
C7_FlushIsAtomic ==
    \A p \in Procs :
        (status[p] = "killed" /\ Latest(p)) =>
            \/ file = file0[p]
            \/ file = Present(JsonDump(infrastructure[p]))

\* C8: update_infrastructure_details(new_details) overwrites at the top-level
\* key: every key of new_details maps to exactly the new record, every other
\* ledger key keeps its record, in memory and in the rewritten file.
C8_UpdateIsShallowOverwrite ==
    \A p \in Procs :
        (script[p] = "deploy" /\ pc[p] > StmtIndex("deploy", "update")) =>
            LET new == NewDetails(locals[p])
                old == Loaded0(p)
                mem == infrastructure[p]
            IN /\ Keys(mem) = Keys(old) \cup Keys(new)
               /\ \A k \in Keys(new) : Get(mem, k) = Get(new, k)
               /\ \A k \in Keys(old) \ Keys(new) : Get(mem, k) = Get(old, k)
               /\ (pc[p] > StmtIndex("deploy", "dump") /\ Latest(p)) =>
                      /\ JsonLoad(file.doc).ok
                      /\ JsonLoad(file.doc).val = mem

C8_Witness ==
    \E p \in Procs :
        /\ script[p] = "deploy" /\ pc[p] > StmtIndex("deploy", "dump") /\ Latest(p)
        /\ Has(Loaded0(p), "dns") /\ Has(Loaded0(p), "vpc")
        /\ Get(Loaded0(p), "dns") # Get(infrastructure[p], "dns")
        /\ ~Has(Get(infrastructure[p], "dns"), "error")

\* the first statement of complete-deployment-script that subscripts ledger key k
FirstRead(k) ==
    CHOOSE i \in DOMAIN DeployProgram :
        /\ \E path \in DeployProgram[i].reads : path[1] = k
        /\ \A j \in 1..(i - 1) : \A path \in DeployProgram[j].reads : path[1] # k

\* C10: a ledger key a stage requires that is absent from the loaded ledger is
\* fatal: for each key complete-deployment-script subscripts (vpc,
\* auto_scaling_group, load_balancer, iam), if the file lacks it the script never
\* gets past the first statement that subscripts it, the KeyError is caught by
\* no except clause and ends the run, no later stage is started, and the ledger
\* file is not rewritten.
C10_MissingKeyIsFatal ==
    \A p \in Procs :
        (script[p] = "deploy" /\ pc[p] > 1) =>
            LET old == Loaded0(p) IN
            \A k \in ReadKeys :
                ~Has(old, k) =>
                    /\ pc[p] <= FirstRead(k)
                    /\ status[p] \in {"running", "raised"}
                    /\ \A i \in DOMAIN caught[p] : caught[p][i].exc # "KeyError"
                    /\ raisedAt[p].exc = "KeyError" =>
                           /\ status[p] = "raised"
                           /\ pc[p] = FirstRead(k)
                           /\ started[p] =
                                  SubSeq(DeployStages, 1,
                                         StageIndex("deploy", DeployProgram[pc[p]].stage))
                    /\ Latest(p) => file = file0[p]

C10_Witness ==
    \E p \in Procs :
        /\ script[p] = "deploy" /\ status[p] = "raised" /\ raisedAt[p].exc = "KeyError"
        /\ ~Has(Loaded0(p), "iam")
        /\ Has(locals[p]["configure_dns"], "error")

\* ------------------------------------------------- flush then load, any ledger
\* save_infrastructure_details(L) is called with a ledger L of string keys
\* mapped to records of strings, numbers, lists and nested mappings; when it has
\* returned, complete-deployment-script is started and loads the file.

SeqsUpTo(S, n) == UNION {[1..k -> S] : k \in 0..n}
RoundTripScalars == {Str("a"), Num(1)}
RoundTripLists == {List(xs) : xs \in SeqsUpTo(RoundTripScalars, MaxListLen)}
RoundTripValues ==
    RoundTripScalars \cup RoundTripLists \cup {Dict(<<>>)}
    \cup {Dict(<< <<"public", v>> >>) : v \in RoundTripLists}
RoundTripRecords ==
    {Dict(<<>>)}
    \cup {Dict(<< <<"vpc_id", v>> >>) : v \in RoundTripValues}
    \cup {Dict(<< <<"vpc_id", s>>, <<"subnets", v>> >>) :
              s \in RoundTripScalars, v \in RoundTripValues}
RoundTripLedgers ==
    {Dict(<<>>)}
    \cup {Dict(<< <<k, r>> >>) : k \in {"vpc", "iam"}, r \in RoundTripRecords}
    \cup {Dict(<< <<"vpc", r1>>, <<"iam", r2>> >>) :
              r1 \in RoundTripRecords, r2 \in RoundTripRecords}
    \cup {Dict(<< <<"iam", r1>>, <<"vpc", r2>> >>) :
              r1 \in RoundTripRecords, r2 \in RoundTripRecords}

InitRoundTrip ==
    /\ file = Absent
    /\ remote = {}
    /\ zones = 0
    /\ response = [p \in Procs |-> {}]
    /\ script = [p \in Procs |-> IF p = 1 THEN "iac" ELSE "none"]
    /\ status = [p \in Procs |-> IF p = 1 THEN "running" ELSE "idle"]
    /\ pc = [p \in Procs |-> IF p = 1 THEN StmtIndex("iac", "open_w") ELSE 1]
    /\ \E L \in RoundTripLedgers :
           infrastructure = [p \in Procs |-> IF p = 1 THEN L ELSE None]
    /\ locals = [p \in Procs |-> [s \in AllStages |-> None]]
    /\ started = [p \in Procs |-> <<>>]
    /\ calls = [p \in Procs |-> <<>>]
    /\ caught = [p \in Procs |-> <<>>]
    /\ raisedAt = [p \in Procs |-> NoException]
    /\ out = [p \in Procs |-> <<>>]
    /\ file0 = [p \in Procs |-> Absent]
    /\ config = Absent
    /\ clock = [p \in Procs |-> 0]

NextRoundTrip ==
    \E p \in Procs :
        \/ OpenW(p)
        \/ Dump(p)
        \/ PrintLine(p)
        \/ Start(p, "deploy")
        \/ Load(p)

SpecRoundTrip == InitRoundTrip /\ [][NextRoundTrip]_vars

\* C9: flushing then reloading the ledger is the identity: the value
\* complete-deployment-script loads from the file save_infrastructure_details(L)
\* wrote equals L, and the load raises nothing.
C9_LoadOfFlushIsIdentity ==
    \A p \in Procs :
        (script[p] = "deploy" /\ status[p] # "idle") =>
            /\ status[p] = "running"
            /\ pc[p] > 1 => infrastructure[p] = infrastructure[1]

C9_Witness ==
    \E p \in Procs :
        /\ script[p] = "deploy" /\ pc[p] > 1
        /\ infrastructure[p] =
               Dict(<< <<"iam", Dict(<< <<"vpc_id", List(<<>>)>> >>)>>,
                       <<"vpc", Dict(<< <<"vpc_id", Num(1)>>,
                                        <<"subnets",
                                          Dict(<< <<"public",
                                                    List(<<Str("a"), Num(1)>>)>> >>)>> >>)>> >>)

\* ------------------------------------------------------------ exit status

UniquelyNamed(s) == s.scope \in {"account", "vpc"}

\* the first create call of script s for a uniquely named resource
FirstUnique(s) ==
    CHOOSE i \in DOMAIN Program(s) :
        /\ UniquelyNamed(Program(s)[i])
        /\ \A j \in 1..(i - 1) : ~UniquelyNamed(Program(s)[j])

\* C12: no stage is skipped because its key is already in the ledger, so an
\* invocation of a script that follows a completed invocation of the same
\* script on the same account never prints its completion message: it gets no
\* further than its first create call for a uniquely named resource, which
\* fails with a duplicate-name error, the stages up to there having run although
\* their keys were in the ledger file.
C12_SecondInvocationFails ==
    \A p \in Procs : \A q \in Procs :
        (q < p /\ script[q] = script[p] /\ status[q] = "exit0") =>
            /\ status[p] # "exit0" /\ ~Printed(p, "completed")
            /\ pc[p] <= FirstUnique(script[p])
            /\ (status[p] = "raised" /\ pc[p] = FirstUnique(script[p])) =>
                   /\ raisedAt[p].exc = "DuplicateResource"
                   /\ started[p] # <<>>
                   /\ \A s \in StartedSet(p) : StageKey(s) \in KeysOfFile(file0[p])

C12_Witness ==
    \E p \in Procs : \E q \in Procs :
        /\ q < p /\ script[q] = "deploy" /\ script[p] = "deploy"
        /\ status[q] = "exit0" /\ status[p] = "raised"
        /\ raisedAt[p] = [exc |-> "DuplicateResource", line |-> 172]

\* ---------------------------------------------------- concurrent instances
\* Two operators start complete-deployment-script on the same directory and
\* account, after a complete boto3-iac-script run; nothing orders the two.

InitConcurrent ==
    /\ file = Present(JsonDump(Ledger0))
    /\ remote = IacNames
    /\ zones = 0
    /\ response = [p \in Procs |-> {}]
    /\ script = [p \in Procs |-> "none"]
    /\ status = [p \in Procs |-> "idle"]
    /\ pc = [p \in Procs |-> 1]
    /\ infrastructure = [p \in Procs |-> None]
    /\ locals = [p \in Procs |-> [s \in AllStages |-> None]]
    /\ started = [p \in Procs |-> <<>>]
    /\ calls = [p \in Procs |-> <<>>]
    /\ caught = [p \in Procs |-> <<>>]
    /\ raisedAt = [p \in Procs |-> NoException]
    /\ out = [p \in Procs |-> <<>>]
    /\ file0 = [p \in Procs |-> Absent]
    /\ config = Absent
    /\ clock = [p \in Procs |-> 0]

\* an instance is started whatever the other instances are doing
StartConcurrent(p) ==
    /\ status[p] = "idle"
    /\ script' = [script EXCEPT ![p] = "deploy"]
    /\ status' = [status EXCEPT ![p] = "running"]
    /\ file0' = [file0 EXCEPT ![p] = file]
    /\ UNCHANGED <<clock, config, file, remote, zones, response, pc, infrastructure, locals, started, calls,
                   caught, raisedAt, out>>

NextConcurrent ==
    \E p \in Procs :
        \/ StartConcurrent(p)
        \/ Load(p)
        \/ Read(p)
        \/ BeginStage(p)
        \/ CallOk(p)
        \/ CallFail(p)
        \/ SkipFound(p)
        \/ Sleep(p)
        \/ ReturnStage(p)
        \/ Update(p)
        \/ OpenW(p)
        \/ Dump(p)
        \/ PrintLine(p)

SpecConcurrent == InitConcurrent /\ [][NextConcurrent]_vars

\* the instance has loaded the ledger file and has not yet rewritten it
BetweenLoadAndRewrite(p) ==
    /\ script[p] = "deploy" /\ Running(p)
    /\ pc[p] > StmtIndex("deploy", "load")
    /\ pc[p] <= StmtIndex("deploy", "dump")

\* C13: of the instances of complete-deployment-script running at the same
\* time, at most one is between its load of the ledger file and its rewrite.
C13_SingleWriter ==
    Cardinality({p \in Procs : BetweenLoadAndRewrite(p)}) <= 1

\* ------------------------------------------------------ readiness waits

\* the calls of create_vpc whose arguments carry the new vpc_id, by line
VpcIdCalls == {31, 49, 74, 96, 113, 141}
\* the call of create_vpc whose arguments carry the new nat_gateway_id
NatGatewayIdCalls == {182}

\* p issued the wait named api before its i-th call, and the wait returned
WaitedBefore(p, api, i) ==
    \E j \in 1..(i - 1) :
        /\ calls[p][j].api = api
        /\ raisedAt[p].line # calls[p][j].line

\* C14: in create_vpc every call that takes the new vpc_id is issued only after
\* the vpc_available waiter has returned, and the private route table's route
\* to the NAT gateway only after the nat_gateway_available waiter has returned.
C14_WaitBeforeDependentCall ==
    \A p \in Procs :
        script[p] = "iac" =>
            \A i \in DOMAIN calls[p] :
                /\ calls[p][i].line \in VpcIdCalls =>
                       WaitedBefore(p, "vpc_available", i)
                /\ calls[p][i].line \in NatGatewayIdCalls =>
                       WaitedBefore(p, "nat_gateway_available", i)

C14_Witness ==
    \E p \in Procs :
        /\ script[p] = "iac"
        /\ \E i \in DOMAIN calls[p] : calls[p][i].line = 31
        /\ \E i \in DOMAIN calls[p] : calls[p][i].line = 182
        /\ locals[p]["create_vpc"] = VpcInfo(p)

\* ------------------------------------------------------------ stage order

\* the stages whose records __main__ passes (or whose result it passes) to stage
Consumes(stage) ==
    CASE stage = "create_security_groups" -> {"create_vpc"}
      [] stage = "create_launch_template" -> {"create_security_groups", "create_iam_role"}
      [] stage = "create_load_balancer" -> {"create_vpc", "create_security_groups"}
      [] stage = "create_auto_scaling_group" ->
             {"create_launch_template", "create_vpc", "create_load_balancer"}
      [] stage = "configure_dns" -> {"set_up_load_balancer"}
      [] OTHER -> {}

IsPrefix(a, b) == Len(a) <= Len(b) /\ a = SubSeq(b, 1, Len(a))

\* C15: the stages of a run are started in the script's one fixed order, none
\* twice; a stage is started only when every stage before it has returned (so
\* no two are in progress together), among them every stage whose output it
\* consumes.
C15_FixedTotalOrder ==
    \A p \in Procs :
        script[p] \in Scripts =>
            /\ IsPrefix(started[p], Stages(script[p]))
            /\ \A i \in DOMAIN started[p] :
                   \A j \in 1..(i - 1) : locals[p][started[p][j]] # None
            /\ \A s \in StartedSet(p) :
                   \A d \in Consumes(s) : locals[p][d] # None

C15_Witness ==
    \E p \in Procs : \E q \in Procs :
        /\ script[p] = "iac" /\ status[p] = "exit0" /\ started[p] = IacStages
        /\ script[q] = "deploy" /\ status[q] = "exit0" /\ started[q] = DeployStages

\* ------------------------------------------------ what a stage's calls use

\* the parameters of each stage function of boto3-iac-script.py
Params(stage) ==
    CASE stage = "create_security_groups" -> {"vpc_id"}
      [] stage = "create_load_balancer" -> {"subnets", "alb_sg_id"}
      [] stage = "create_launch_template" -> {"backend_sg_id", "instance_profile_name"}
      [] stage = "create_auto_scaling_group" -> {"lt_id", "subnets", "target_group_arns"}
      [] OTHER -> {}

\* the names each stage function assigns before it passes them to a remote call
Assigned(stage) ==
    CASE stage = "create_vpc" ->
             {"vpc_id", "igw_id", "az", "i", "subnets", "public_subnet_id", "subnet_id",
              "public_rt_id", "private_rt_id", "eip", "nat_gateway_id"}
      [] stage = "create_security_groups" -> {"alb_sg_id", "backend_sg_id"}
      [] stage = "create_load_balancer" ->
             {"alb_arn", "hello_tg_arn", "profile_tg_arn", "hello_listener"}
      [] stage = "create_iam_role" -> {"assume_role_policy", "role_name"}
      [] stage = "create_launch_template" -> {"encoded_user_data"}
      [] OTHER -> {}

\* the variables in the arguments of the remote call at each line
Uses(line) ==
    CASE line \in {28, 31, 113, 141, 201, 235, 304, 323} -> {"vpc_id"}
      [] line = 49 -> {"igw_id", "vpc_id"}
      [] line \in {74, 96} -> {"az", "i", "vpc_id"}
      [] line = 90 -> {"public_subnet_id"}
      [] line = 126 -> {"igw_id", "public_rt_id"}
      [] line = 134 -> {"public_rt_id", "subnet_id"}
      [] line = 155 -> {"private_rt_id", "subnet_id"}
      [] line = 163 -> {"eip", "subnets"}
      [] line = 179 -> {"nat_gateway_id"}
      [] line = 182 -> {"nat_gateway_id", "private_rt_id"}
      [] line = 216 -> {"alb_sg_id"}
      [] line = 250 -> {"alb_sg_id", "backend_sg_id"}
      [] line = 269 -> {"backend_sg_id"}
      [] line = 288 -> {"alb_sg_id", "subnets"}
      [] line = 343 -> {"alb_arn", "hello_tg_arn"}
      [] line = 359 -> {"hello_listener", "profile_tg_arn"}
      [] line = 399 -> {"assume_role_policy"}
      [] line \in {411, 424} -> {"role_name"}
      [] line = 463 -> {"backend_sg_id", "encoded_user_data", "instance_profile_name"}
      [] line = 500 -> {"lt_id", "subnets", "target_group_arns"}
      [] OTHER -> {}

\* the stage function the call at this line of boto3-iac-script.py belongs to
StageOfLine(line) ==
    IacProgram[CHOOSE i \in DOMAIN IacProgram :
                   IacProgram[i].op = "call" /\ IacProgram[i].line = line].stage

\* the variables of the call at this line that are neither a parameter nor a
\* local of its function: module-level (ambient) state
Ambient(line) == Uses(line) \ (Params(StageOfLine(line)) \cup Assigned(StageOfLine(line)))

\* C16: every remote call a stage function of boto3-iac-script issues takes its
\* arguments from the function's parameters and locals only, never from
\* module-level state.
C16_StageUsesOnlyItsParameters ==
    \A p \in Procs :
        script[p] = "iac" =>
            \A i \in DOMAIN calls[p] : Ambient(calls[p][i].line) = {}

\* ---------------------------------------------------------------- retries

\* the exceptions a remote call or a readiness wait raises
CallErrors == {"RemoteError", "DuplicateResource", "WaiterError"}

\* how many times p has issued the call at this line
TimesIssued(p, line) == Cardinality({i \in DOMAIN calls[p] : calls[p][i].line = line})

\* the call sites inside create_vpc's for loops (one pass per zone or subnet)
LoopCalls == {74, 90, 96, 134, 155}
\* available_azs[:2]: the loops make two passes
Passes == 2

\* C17: in any run of any of the three scripts every call site is executed at
\* most once.
C17_EachCallSiteAtMostOnce ==
    \A p \in Procs :
        \A i \in DOMAIN calls[p] : TimesIssued(p, calls[p][i].line) <= 1

\* C17 as amended: a call that fails is never reissued (the run ends on it, or
\* the except clause returns and the call site is not reached again), and every
\* call site is executed at most once in a run, except those inside create_vpc's
\* loops, executed once per pass.
C17_NothingRetried ==
    \A p \in Procs :
        /\ \A i \in DOMAIN calls[p] :
               TimesIssued(p, calls[p][i].line) <=
                   (IF calls[p][i].line \in LoopCalls THEN Passes ELSE 1)
        /\ raisedAt[p].exc \in CallErrors =>
               /\ status[p] = "raised"
               /\ calls[p][Len(calls[p])].line = raisedAt[p].line
        /\ \A k \in DOMAIN caught[p] :
               caught[p][k].exc \in CallErrors => TimesIssued(p, caught[p][k].line) = 1

C17_Witness ==
    \E p \in Procs : \E q \in Procs :
        /\ script[p] = "iac" /\ status[p] = "exit0" /\ TimesIssued(p, 74) = 2
        /\ script[q] = "backup" /\ caught[q] # <<>> /\ status[q] = "raised"

\* ------------------------------------------------- the backup function runs
\* The scheduled rule invokes the backup function once.

InitHandler ==
    /\ file = Absent
    /\ remote = {}
    /\ zones = 0
    /\ response = [p \in Procs |-> {}]
    /\ script = [p \in Procs |-> IF p = 1 THEN "handler" ELSE "none"]
    /\ status = [p \in Procs |-> IF p = 1 THEN "running" ELSE "idle"]
    /\ pc = [p \in Procs |-> 1]
    /\ infrastructure = [p \in Procs |-> None]
    /\ locals = [p \in Procs |-> [s \in AllStages |-> None]]
    /\ started = [p \in Procs |-> <<>>]
    /\ calls = [p \in Procs |-> <<>>]
    /\ caught = [p \in Procs |-> <<>>]
    /\ raisedAt = [p \in Procs |-> NoException]
    /\ out = [p \in Procs |-> <<>>]
    /\ file0 = [p \in Procs |-> Absent]
    /\ config = Absent
    /\ clock = [p \in Procs |-> 0]

NextHandler ==
    \E p \in Procs :
        \/ BeginStage(p)
        \/ CallOk(p)
        \/ CallFail(p)
        \/ Probe(p)
        \/ WaitSleep(p)
        \/ PrintLine(p)
        \/ Respond(p)

SpecHandler == InitHandler /\ [][NextHandler]_vars

\* the answers the waiter's probes got, in order
Answers(p) == SelectSeq(calls[p], LAMBDA c : c.line = 129)
AllPending(p) ==
    \A i \in DOMAIN Answers(p) : Answers(p)[i].api = "db_snapshot_available:pending"
TimedOut(p) ==
    \E k \in DOMAIN caught[p] : caught[p][k].exc = "WaiterError:max_attempts"

\* C18: the db_snapshot_available wait never issues more than 60 probes, sleeps
\* 30 seconds between two probes, and when every probe reports not-ready it ends
\* in a timeout at the 60th probe exactly, after 59 sleeps of 30 seconds.
C18_WaitIsBounded ==
    \A p \in Procs :
        script[p] = "handler" =>
            /\ Len(Answers(p)) <= 60
            /\ clock[p] = 30 * (IF At(p, "probe") THEN Len(Answers(p))
                                ELSE IF Answers(p) = <<>> THEN 0
                                ELSE Len(Answers(p)) - 1)
            /\ (Len(Answers(p)) = 60 /\ AllPending(p)) => TimedOut(p)
            /\ TimedOut(p) =>
                   /\ Len(Answers(p)) = 60 /\ AllPending(p)
                   /\ clock[p] = 59 * 30
                   /\ ~At(p, "probe") /\ ~At(p, "wait_sleep")

C18_Witness ==
    \E p \in Procs :
        /\ script[p] = "handler" /\ TimedOut(p) /\ status[p] = "exit0"
        /\ out[p][Len(out[p])] = "500"

\* ------------------------------------------------- a readiness wait fails

\* the wait at this line ended in timeout or failure
WaitFailed(p, line) ==
    \/ raisedAt[p] = [exc |-> "WaiterError", line |-> line]
    \/ \E k \in DOMAIN caught[p] : caught[p][k] = [exc |-> "WaiterError", line |-> line]

\* C19: when the vpc_available or the nat_gateway_available wait of create_vpc
\* ends in timeout or failure, the run ends there: the wait is the last call
\* issued (so none of the calls that need the resource is issued), no stage
\* after create_vpc is started, and the ledger file is not written.
C19_WaitFailureIsFatal ==
    \A p \in Procs :
        \A line \in {28, 179} :
            (script[p] = "iac" /\ WaitFailed(p, line)) =>
                /\ status[p] = "raised"
                /\ calls[p][Len(calls[p])].line = line
                /\ \A i \in DOMAIN calls[p] :
                       calls[p][i].line \notin
                           (IF line = 28 THEN VpcIdCalls ELSE NatGatewayIdCalls)
                /\ started[p] = <<"create_vpc">>
                /\ locals[p]["create_vpc"] = None
                /\ Latest(p) => file = file0[p]

C19_Witness ==
    \E p \in Procs : \E q \in Procs :
        /\ script[p] = "iac" /\ WaitFailed(p, 179) /\ ~file.exists
        /\ script[q] = "iac" /\ WaitFailed(q, 28)

\* ------------------------------------------- identifiers taken from the ledger

\* the identifiers loaded from the ledger that the call at this line of
\* complete-deployment-script.py passes to the remote API
LedgerIds(line) ==
    CASE line \in {36, 44, 52} -> {"asg_name"}
      [] line = 71 -> {"alb_arn"}
      [] line = 121 -> {"alb_dns"}
      [] line = 172 -> {"vpc_id"}
      [] line = 221 -> {"instance_profile_name"}
      [] line = 250 -> {"subnets"}
      [] OTHER -> {}

\* what a status or describe call of the script looks up
ProbedIds(api) ==
    CASE api = "route53.list_hosted_zones_by_name" -> {"domain_name"}
      [] OTHER -> {}

\* C20: before complete-deployment-script passes an identifier loaded from the
\* ledger to a mutating remote call, it has issued, in the same run, a status or
\* describe call for that resource.
C20_ProbeBeforeUse ==
    \A p \in Procs :
        script[p] = "deploy" =>
            \A i \in DOMAIN calls[p] :
                \A id \in LedgerIds(calls[p][i].line) :
                    \E j \in 1..(i - 1) : id \in ProbedIds(calls[p][j].api)

\* ------------------------------------------------ the backup deployment script

\* create_db_backup_lambda returned the error record of its except clause
\* (lambda-backup-script.py line 46)
BucketFailed(p) ==
    /\ locals[p]["create_db_backup_lambda"] # None
    /\ Has(locals[p]["create_db_backup_lambda"], "error")

\* C21: lambda-backup-script prints the success message only in runs where
\* create_db_backup_lambda created everything and wrote backup_config.json; in a
\* run where bucket creation fails the message is not printed and the script
\* does not end in an unhandled error.
C21_SuccessMessageOnlyOnSuccess ==
    \A p \in Procs :
        script[p] = "backup" =>
            /\ Printed(p, "completed") =>
                   /\ "create_db_backup_lambda" \in Succeeded(p)
                   /\ Printed(p, "saved")
            /\ BucketFailed(p) =>
                   /\ ~Printed(p, "completed")
                   /\ status[p] # "raised"

\* ------------------------------------------------ aborted provisioning runs

\* the statements of p's script that precede the one p is at
Done(p) == 1..(pc[p] - 1)

\* the resources the calls p has completed created (boto3-iac-script has no
\* except clause and no lookup, so every statement before pc was executed)
CreatedBy(p) == {Resource(p, i) : i \in {j \in Done(p) : Creates(Program(script[p])[j])}}

\* the strings of a record's JSON text
Strings(rec) ==
    LET doc == JsonDump(rec)
    IN {doc[i].s : i \in {j \in DOMAIN doc : doc[j].k = "str"}}

\* the identifiers the remote account gave to the resources of p's run: the
\* strings of the records p's stages returned that no other run's record holds
RunIds(p) ==
    UNION {Strings(locals[p][s]) \ Strings(StageRecord(s, 0, None)) :
              s \in Succeeded(p) \cap StageSet("iac")}

\* the strings of the ledger file's text
FileStrings == {file.doc[i].s : i \in {j \in DOMAIN file.doc : file.doc[j].k = "str"}}

\* p is before the open of save_infrastructure_details
BeforeSave(p) == pc[p] <= StmtIndex("iac", "open_w")

\* C22: when a stage of boto3-iac-script fails after earlier creates of the run
\* succeeded, the resources created remain in the remote account and none of
\* their identifiers is in infrastructure_details.json; the file is written
\* only once all six stages have succeeded, and an aborted run leaves a
\* pre-existing file unchanged.
C22_AbortedRunLeavesResourcesUnrecorded ==
    \A p \in Procs :
        script[p] = "iac" =>
            /\ ~BeforeSave(p) => StageSet("iac") \subseteq Succeeded(p)
            /\ (BeforeSave(p) /\ Latest(p)) => file = file0[p]
            /\ status[p] = "raised" =>
                   /\ BeforeSave(p)
                   /\ CreatedBy(p) \subseteq remote
                   /\ Latest(p) => RunIds(p) \cap FileStrings = {}

\* a stage failed after the run had created a VPC, with the ledger of an
\* earlier run on disk
C22_Witness ==
    \E p \in Procs :
        /\ script[p] = "iac" /\ status[p] = "raised" /\ Latest(p)
        /\ "create_vpc" \in Succeeded(p)
        /\ CreatedBy(p) # {}
        /\ RunIds(p) # {}
        /\ file0[p].exists

\* ------------------------------------------------ ledger lookups of a stage

\* the statement is a remote call that changes the remote account
Mutating(s) == s.op = "call" /\ s.kind \in {"create", "mutate"}

\* C23: every stage of complete-deployment-script looks up all the ledger keys
\* it needs before its first mutating remote call: a stage that aborts on a
\* missing ledger key has issued no mutating call (deploy_frontend with a
\* ledger lacking 'iam' or 'load_balancer' creates no security group).
C23_LookupsBeforeFirstMutation ==
    \A p \in Procs :
        (script[p] = "deploy" /\ status[p] = "raised"
         /\ raisedAt[p].exc = "KeyError" /\ Cur(p).stage # "") =>
            \A i \in Done(p) :
                Program("deploy")[i].stage = Cur(p).stage => ~Mutating(Program("deploy")[i])

\* ------------------------------------------------ create_lambda_functions

\* the calls inside create_lambda_functions' try block (bucket and lifecycle)
BucketCalls == {296, 304}

\* the remote calls of create_lambda_functions after its try block
LaterCalls ==
    {CreateLambdaFunctionsBody[i].line :
        i \in {j \in DOMAIN CreateLambdaFunctionsBody :
                  /\ CreateLambdaFunctionsBody[j].op = "call"
                  /\ CreateLambdaFunctionsBody[j].line \notin BucketCalls}}

LinesIssued(p) == {calls[p][i].line : i \in DOMAIN calls[p]}
LinesCaught(p) == {caught[p][i].line : i \in DOMAIN caught[p]}

\* the record stored under a top-level key of the ledger file
FileRecord(key) == Get(JsonLoad(file.doc).val, key)

\* C24: create_lambda_functions has two failure modes. A failure of the bucket
\* or lifecycle call returns the error record with no role, function or rule
\* created, the pipeline goes on and the record is stored under 'lambda'. A
\* failure of any later call raises: update_infrastructure_details is never
\* called and the ledger file keeps its pre-run content although the earlier
\* stages of the run returned.
C24_TwoFailureModes ==
    \A p \in Procs :
        script[p] = "deploy" =>
            /\ LinesCaught(p) \cap LaterCalls = {}
            /\ (LinesCaught(p) \cap BucketCalls # {}) =>
                   /\ locals[p]["create_lambda_functions"] \in
                          {ErrorRecord("s3.create_bucket"),
                           ErrorRecord("s3.put_bucket_lifecycle_configuration")}
                   /\ LinesIssued(p) \cap LaterCalls = {}
                   /\ status[p] # "raised"
                   /\ pc[p] > StmtIndex("deploy", "update") =>
                          Get(infrastructure[p], "lambda") = locals[p]["create_lambda_functions"]
                   /\ (Printed(p, "saved") /\ Latest(p)) =>
                          FileRecord("lambda") = locals[p]["create_lambda_functions"]
            /\ (status[p] = "raised" /\ raisedAt[p].line \in LaterCalls) =>
                   /\ pc[p] < StmtIndex("deploy", "update")
                   /\ ~Has(infrastructure[p], "lambda")
                          \/ Get(infrastructure[p], "lambda") = Get(Loaded0(p), "lambda")
                   /\ \A s \in StageSet("deploy") \ {"create_lambda_functions"} :
                          locals[p][s] # None
                   /\ Latest(p) => file = file0[p]

\* a call after the try block failed once the role had been created
C24_Witness ==
    \E p \in Procs :
        /\ script[p] = "deploy" /\ status[p] = "raised"
        /\ raisedAt[p].line \in LaterCalls \ {336}
        /\ "deploy_frontend" \in Succeeded(p)
        /\ Latest(p)

\* the bucket call failed and the run went on to record the error record
ErrorRecordStored ==
    \E p \in Procs :
        /\ script[p] = "deploy" /\ status[p] = "exit0"
        /\ 296 \in LinesCaught(p)
        /\ Latest(p) /\ Has(FileRecord("lambda"), "error")

\* ------------------------------------------------------------ configure_dns
\* complete-deployment-script is run, after a complete boto3-iac-script run, on
\* an account that holds any of the hosted zones of ZoneNames.

InitDns ==
    /\ file = Present(JsonDump(Ledger0))
    /\ \E held \in SUBSET ZoneNames : remote = IacNames \cup held
    /\ zones = 0
    /\ response = [p \in Procs |-> {}]
    /\ script = [p \in Procs |-> "none"]
    /\ status = [p \in Procs |-> "idle"]
    /\ pc = [p \in Procs |-> 1]
    /\ infrastructure = [p \in Procs |-> None]
    /\ locals = [p \in Procs |-> [s \in AllStages |-> None]]
    /\ started = [p \in Procs |-> <<>>]
    /\ calls = [p \in Procs |-> <<>>]
    /\ caught = [p \in Procs |-> <<>>]
    /\ raisedAt = [p \in Procs |-> NoException]
    /\ out = [p \in Procs |-> <<>>]
    /\ file0 = [p \in Procs |-> Absent]
    /\ config = Absent
    /\ clock = [p \in Procs |-> 0]

NextDns ==
    \E p \in Procs :
        \/ Start(p, "deploy")
        \/ Load(p)
        \/ Read(p)
        \/ BeginStage(p)
        \/ CallOk(p)
        \/ CallFail(p)
        \/ SkipFound(p)
        \/ Sleep(p)
        \/ ReturnStage(p)
        \/ Update(p)
        \/ OpenW(p)
        \/ Dump(p)
        \/ PrintLine(p)

SpecDns == InitDns /\ [][NextDns]_vars

\* the call sites of configure_dns: the lookup, the create, the two upserts
ListZonesCall == 96
CreateZoneCall == 108
UpsertCall == 121

\* the lookup p issued returned a zone named as the domain, with or without a
\* trailing dot
ZoneReturned(p) ==
    \E zone \in response[p] : zone \in {"project-orc.example.com.", "project-orc.example.com"}

\* C25: configure_dns creates a hosted zone if and only if the lookup returns
\* no zone whose name equals the domain name with or without a trailing dot;
\* the alias-record upserts are issued only after a zone id has been obtained
\* from the found or newly created zone; configure_dns never raises: it returns
\* a record with domain_name, hosted_zone_id and nameservers, or a record whose
\* only key is 'error'.
C25_ConfigureDns ==
    \A p \in Procs :
        script[p] = "deploy" =>
            /\ CreateZoneCall \in LinesIssued(p) =>
                   /\ ListZonesCall \in LinesIssued(p) \ LinesCaught(p)
                   /\ ~ZoneReturned(p)
            /\ UpsertCall \in LinesIssued(p) =>
                   /\ ListZonesCall \in LinesIssued(p) \ LinesCaught(p)
                   /\ CreateZoneCall \in LinesIssued(p) <=> ~ZoneReturned(p)
                   /\ CreateZoneCall \notin LinesCaught(p)
            /\ raisedAt[p].line \notin {ListZonesCall, CreateZoneCall, UpsertCall}
            /\ status[p] = "raised" => Cur(p).stage # "configure_dns"
            /\ locals[p]["configure_dns"] # None =>
                   IF LinesCaught(p) \cap {ListZonesCall, CreateZoneCall, UpsertCall} = {}
                   THEN /\ Keys(locals[p]["configure_dns"]) =
                               {"domain_name", "hosted_zone_id", "nameservers"}
                        /\ UpsertCall \in LinesIssued(p)
                   ELSE Keys(locals[p]["configure_dns"]) = {"error"}

\* the lookup returned the zone named without the trailing dot: no zone was
\* created, the upserts were issued and the full record was returned
C25_Witness ==
    \E p \in Procs :
        /\ script[p] = "deploy"
        /\ response[p] \cap {"project-orc.example.com.", "project-orc.example.com"}
               = {"project-orc.example.com"}
        /\ CreateZoneCall \notin LinesIssued(p)
        /\ UpsertCall \in LinesIssued(p)
        /\ Has(locals[p]["configure_dns"], "hosted_zone_id")

\* the lookup returned only zones of other names and the zone was created
ZoneCreated ==
    \E p \in Procs :
        /\ script[p] = "deploy"
        /\ response[p] # {} /\ ~ZoneReturned(p)
        /\ CreateZoneCall \in LinesIssued(p) \ LinesCaught(p)
        /\ Has(locals[p]["configure_dns"], "hosted_zone_id")

\* ------------------------------------------------------- create_vpc's subnets

\* az['ZoneName'] of the k-th zone of the describe_availability_zones response
ZoneName(k) == "us-west-1-az" \o ToString(k)

\* available_azs (boto3-iac-script.py line 60)
AvailableAzs == [k \in 1..zones |-> ZoneName(k)]

PublicSubnetCall == 74
PrivateSubnetCall == 96

\* the loop index i of the pass that issued p's k-th call: the number of earlier
\* calls from the same call site
Pass(p, k) ==
    Cardinality({j \in 1..(k - 1) : calls[p][j].line = calls[p][k].line})

\* a plausible bug: the private subnet's octet is written i+1
CidrBlockLinear(line, i) ==
    "10.0." \o ToString(IF line = PublicSubnetCall THEN i * 2 ELSE i + 1) \o ".0/24"

\* CidrBlock=f'10.0.{i*2}.0/24' (line 76) and f'10.0.{i*2+1}.0/24' (line 98)
CidrBlock(line, i) ==
    "10.0." \o ToString(IF line = PublicSubnetCall THEN i * 2 ELSE i * 2 + 1) \o ".0/24"

\* the arguments of p's k-th call, a create_subnet call
SubnetRequest(p, k) ==
    LET i == Pass(p, k)
    IN [i |-> i,
        CidrBlock |-> CidrBlock(calls[p][k].line, i),
        AvailabilityZone |-> IF i + 1 \in DOMAIN AvailableAzs THEN AvailableAzs[i + 1] ELSE ""]

\* the create_subnet requests p issued from the call site at this line
SubnetRequests(p, line) ==
    {SubnetRequest(p, k) : k \in {j \in DOMAIN calls[p] : calls[p][j].line = line}}

\* the subnet ids the record lists under 'public' or 'private'
SubnetIds(rec, kind) ==
    LET l == Get(Get(rec, "subnets"), kind)
    IN {l.xs[i].s : i \in DOMAIN l.xs}

TooFewZones ==
    \E p \in Procs :
        /\ script[p] = "iac" /\ Latest(p)
        /\ raisedAt[p] = [exc |-> "Exception", line |-> 63]
        /\ zones = 1

====
